---- MODULE Spec2Model ----
(***************************************************************************)
(* State-machine model of the http-snapshotter record/replay engine        *)
(* (src/unnamed/part_000): the "request" and "response" event handlers of  *)
(* start(), readSnapshot, saveSnapshot, sendResponse and the module-level  *)
(* caches they share.                                                      *)
(*                                                                         *)
(* JavaScript runs the handlers as coroutines on one thread: a handler     *)
(* runs without interruption up to its next `await` on I/O, so every       *)
(* action below is one such run-to-await segment, and pc[r] is the await   *)
(* at which the handler of request object r is suspended.                  *)
(*                                                                         *)
(* The interceptor (external) delivers the "response" event of a request   *)
(* after its "request" handler has returned, with the mocked response if   *)
(* one was injected and the live one otherwise; a request whose handler    *)
(* threw is aborted and gets no "response" event.                          *)
(*                                                                         *)
(* The 'beforeExit' handler (the unused-snapshot report) runs in the same  *)
(* state machine.  findClosestSnapshotFile and the hint readSnapshot       *)
(* prints with a miss are computed on character sequences in a second      *)
(* specification, SpecFinder, whose initial states are the directory       *)
(* listings and missed fingerprints of one read-mode miss.                *)
(*                                                                         *)
(* Further specifications start the same variables in the states one call  *)
(* is about: SpecSend writes the record of one live response and replays   *)
(* it through sendResponse; SpecGen calls getSnapshotFileInfo with the     *)
(* default generator on two requests; SpecTestCase calls startTestCase and *)
(* endTestCase in any order; SpecWrites saves two fingerprints in update  *)
(* mode; SpecLog runs the handlers under every value of LOG_REQ, and       *)
(* FairLog adds the fairness of the event loop and of fs operations that   *)
(* settle; SpecLife calls start() and stop() in any order; SpecBind lets   *)
(* the test code change the test case, the generator and the ignore rules  *)
(* between the two events of a request; SpecAppend reads a file while      *)
(* fs.writeFile is writing it.                                             *)
(***************************************************************************)
EXTENDS Integers, FiniteSets, Sequences, TLC

\* ------------------------------------------------------------- bounds ---
\* number of request objects the interceptor delivers in one process
MaxReq == 2
\* number of file-system operations the environment may fail (EIO, EACCES)
MaxFaults == 1
\* number of 'beforeExit' events the process emits
MaxExits == 2

Req == 1..MaxReq

\* ----------------------------------------------------- value universes ---
Modes == {"read", "update", "append", "ignore", "bogus"}
\* request bodies; method and URL are the same for all requests, so all
\* fingerprints share one filePrefix and differ in fileSuffixKey only
Keys == {"a", "b"}
\* '' is the root, "t" a test-case sub directory
SubDirs == {"", "t"}
SnapshotDirectory == "root"

\* createHash('sha256').update(fileSuffixKey).digest('base64url').slice(0, 15)
Digest(fileSuffixKey) ==
    CASE fileSuffixKey = "a" -> "ha"
      [] fileSuffixKey = "b" -> "hb"
      [] OTHER -> "h"

\* join(snapshotSubDirectory, `${filePrefix}-${hash}.json`)
FileName(sub, fileSuffixKey) == <<sub, Digest(fileSuffixKey)>>
\* resolve(snapshotDirectory, fileName)
AbsoluteFilePath(fileName) == <<SnapshotDirectory>> \o fileName
\* dirname(absoluteFilePath)
Dirname(path) == <<path[1], path[2]>>
RootDir == <<SnapshotDirectory, "">>

FileNames == {FileName(s, k) : s \in SubDirs, k \in Keys}
Paths == {AbsoluteFilePath(f) : f \in FileNames}
Dirs == {Dirname(p) : p \in Paths}

\* ------------------------------------------------------ snapshot values ---
\* A snapshot, as far as the engine's control flow looks at it: the
\* fileSuffixKey stored in it and the response of the pair it records
\* (0: a pair captured by an earlier run, r > 0: the live response to r).
Snapshot(k, resp) == [fileSuffixKey |-> k, response |-> resp]
\* JSON.parse giving null (a falsy value)
NullSnapshot == [fileSuffixKey |-> "", response |-> -1]
\* undefined: no entry in snapshotCache / the `{}` result of a miss
Undefined == [fileSuffixKey |-> "", response |-> -2]
Truthy(s) == s.response >= 0

\* file contents
Absent == [kind |-> "ENOENT", key |-> "", pair |-> 0]
Garbage == [kind |-> "garbage", key |-> "", pair |-> 0]
NullText == [kind |-> "null", key |-> "", pair |-> 0]
\* variant: the response is lost in serialisation
Stringify_NoResponse(s) == [kind |-> "json", key |-> s.fileSuffixKey, pair |-> 0]

\* JSON.stringify(snapshot, null, 2)
Stringify(s) == [kind |-> "json", key |-> s.fileSuffixKey, pair |-> s.response]
\* variant: text that is not JSON parses to a record
ParseThrows_Never(text) == FALSE

\* JSON.parse(json): throws on text that is not JSON
ParseThrows(text) == text.kind = "garbage"
Parse(text) ==
    IF text.kind = "null" THEN NullSnapshot
    ELSE Snapshot(text.key, text.pair)

NoInfo == [fileName |-> <<"", "">>, absoluteFilePath |-> <<"", "", "">>, fileSuffixKey |-> ""]

VARIABLES
    SNAPSHOT,               \* process.env.SNAPSHOT || 'read'
    LOG_REQ,                \* process.env.LOG_REQ: "", "summary" or "detailed"
    snapshotSubDirectory,
    snapshotFileNameGenerator, \* "default" or "custom" (a generator that leaves the body out)
    snapshotIgnoreRules,    \* "default" or "custom" (a rule ignoring every request)
    disk,                   \* absolute path -> file content
    dirsOnDisk,             \* directories that exist
    snapshotCache,          \* absolute path -> parsed snapshot
    readFiles,              \* set of file names
    alreadyWrittenFiles,    \* absolute path -> 0 or the request whose call made the promise
    existingSubDirectories,
    dirCreatePromise,       \* "none", "pending", "fulfilled", "rejected"
    cache,                  \* WeakMap request -> SnapshotFileInfo
    ignoredRequests,        \* WeakSet of requests
    pc,                     \* request -> position of its handler
    body,                   \* request -> its body (Keys), "" before it is issued
    pendingKey,             \* request -> the fileSuffixKey its generator call resolves
                            \* with, "" before the call
    info,                   \* request -> snapshotFileInfo local to the running handler
    injected,               \* request -> snapshot whose response was given to respondWith
    err,                    \* request -> message of the error its handler threw
    savePc,                 \* request -> state of the saveFreshSnapshot() promise it made
    awaiting,               \* request -> request whose save promise it awaits
    faults,                 \* file-system operations failed so far
    bodies,                 \* the request bodies the test code sends in this run
    \* history variables
    fsReads,                \* requests whose handler called fs.readFile
    writeCalls,             \* absolute path -> number of fs.writeFile calls
    lastSaver,              \* absolute path -> last request that called saveSnapshot for it
    firstSaver,             \* absolute path -> first request that called saveSnapshot for it
    readOk,                 \* absolute paths that were read and parsed
    missed,                 \* requests whose fs.readFile failed with ENOENT
    hitWritten,             \* requests whose readSnapshot began after the write of its path completed
    disk0,                  \* the files when the process started
    mkdirCalls,             \* number of fs.mkdir calls: of saveFreshSnapshot per
                            \* directory, and of the handler for dirCreatePromise
    atRequest,              \* request -> the sub-directory and the ignore decision
                            \* when its request event arrived
    decisions,              \* request -> the write decision when its response event
                            \* arrived and the one taken after the detailed log
    \* the 'beforeExit' handler
    beforeExitEventSeen,
    existingSnapshotFilesList, \* directories whose recursive listing is cached
    exitPc,                 \* "idle", "list", "write", "unlink", "done"
    unusedFiles,            \* unusedFiles local to the suspended handler
    report,                 \* the file unused-snapshots.log under the root
    exits,                  \* history: number of 'beforeExit' events
    reportOps,              \* history: fs.writeFile + fs.unlink calls on the report
    exitFailed,             \* history: an operation of the handler failed
    \* one call of findClosestSnapshotFile
    files,                  \* file name -> content, the files readdir lists
    wanted,                 \* {filePrefix, fileSuffixKey} of the missed fingerprint
    closestMatch,           \* the value the finder returned
    diagnostic,             \* the hint readSnapshot prints with the miss
    finderPc,               \* "idle", "call", "returned", "threw", "reported"
    \* one record written and replayed
    live,                   \* the live response
    record,                 \* the snapshot parsed from the file written for it
    bufferBody,             \* bufferBody of sendResponse
    newResponse,            \* the response given to controller.respondWith
    sendErr,                \* message of the error sendResponse threw
    sendPc,                 \* "idle", "live", "stored", "sent", "threw"
    replays,                \* number of sendResponse calls with the record
    \* two calls of getSnapshotFileInfo with the default generator
    requests,               \* caller -> the request
    generated,              \* caller -> the snapshotFileInfo returned
    genErr,                 \* caller -> the error thrown
    genPc,                  \* caller -> "idle", "call", "returned", "threw"
    \* the calls of startTestCase and endTestCase, in order
    testCalls,
    \* start and stop
    interceptor,            \* the module's `interceptor`: 0 (null) or an interceptor
    applied,                \* interceptors applied and not disposed
    lifecycle               \* the calls of start and stop, in order

vars == <<SNAPSHOT, LOG_REQ, snapshotFileNameGenerator, atRequest, decisions, snapshotSubDirectory, snapshotIgnoreRules, disk, dirsOnDisk,
          snapshotCache, readFiles, alreadyWrittenFiles, existingSubDirectories,
          dirCreatePromise, cache, ignoredRequests, pc, body, pendingKey, info, injected,
          err, savePc, awaiting, faults, bodies, fsReads, writeCalls, lastSaver, firstSaver,
          readOk, missed, hitWritten, disk0, mkdirCalls, beforeExitEventSeen,
          existingSnapshotFilesList, exitPc, unusedFiles, report, exits, reportOps,
          exitFailed, files, wanted, closestMatch, diagnostic, finderPc, live, record,
          bufferBody, newResponse, sendErr, sendPc, replays, requests, generated, genErr,
          genPc, testCalls, interceptor, applied, lifecycle>>

engine == <<snapshotCache, readFiles, alreadyWrittenFiles, existingSubDirectories,
            dirCreatePromise, cache, ignoredRequests>>
hist == <<fsReads, writeCalls, lastSaver, firstSaver, readOk, missed, hitWritten, disk0,
          mkdirCalls, decisions, atRequest>>
fsys == <<disk, dirsOnDisk, faults>>
settings == <<SNAPSHOT, LOG_REQ, snapshotSubDirectory, snapshotFileNameGenerator,
              snapshotIgnoreRules, bodies>>
saves == <<savePc, awaiting>>
shutdown == <<beforeExitEventSeen, exitPc, unusedFiles, report, exits, reportOps,
              exitFailed>>
finder == <<files, wanted, closestMatch, diagnostic, finderPc>>
synth == <<live, record, bufferBody, newResponse, sendErr, sendPc, replays>>
\* the variables of the specifications of one call, but the finder's
gen == <<requests, generated, genErr, genPc>>
life == <<interceptor, applied, lifecycle>>
calls == <<synth, gen, testCalls, life>>

\* ------------------------------------------------------- pure helpers ---
\* defaultSnapshotIgnoreRules returns false; the custom rule returns true
ShouldIgnore(rules) == rules = "custom"

\* variant: an ignored request is never fatal
IgnoredIsFatal_Never(shouldIgnoreSnapshot) == FALSE

\* the request handler throws on an ignored request
IgnoredIsFatal(shouldIgnoreSnapshot) == shouldIgnoreSnapshot /\ SNAPSHOT = "read"

\* variant: update mode reads snapshots too
ShouldRead_Update(shouldIgnoreSnapshot) ==
    SNAPSHOT \in {"read", "append", "update"} /\ ~shouldIgnoreSnapshot

\* the request handler reads the snapshot
ShouldRead(shouldIgnoreSnapshot) ==
    SNAPSHOT \in {"read", "append"} /\ ~shouldIgnoreSnapshot

\* variant: fs.readFile is called again after ENOENT
OnENOENT_ReadAgain == "reqRead"

\* variant: ENOENT is reported as a miss in every mode
OnENOENT_AlwaysFatal == "reqFind"

\* readSnapshot on ENOENT: `return {}` in append mode, else the miss report
OnENOENT == IF SNAPSHOT = "append" THEN "passthrough" ELSE "reqFind"

\* the fileSuffixKey a generator returns for a request with body k: the
\* default one keeps the body, the attached one leaves it out, so that it
\* returns one key for every request
FileSuffixKeyOf(generator, k) == IF generator = "custom" THEN "b" ELSE k

\* getSnapshotFileInfo once the promise of the generator, called when
\* getSnapshotFileInfo was, has resolved: snapshotSubDirectory is read now
getSnapshotFileInfo(r) ==
    LET fileName == FileName(snapshotSubDirectory, pendingKey[r])
    IN [fileName |-> fileName,
        absoluteFilePath |-> AbsoluteFilePath(fileName),
        fileSuffixKey |-> pendingKey[r]]

\* the response object of the "response" event of r
ResponseOf(r) == IF injected[r] # Undefined THEN injected[r].response ELSE r

\* the directory findClosestSnapshotFile lists: readdir(..., {recursive: true})
InScope(path, sub) == sub = "" \/ path[2] = sub
\* findClosestSnapshotFile throws when a candidate cannot be parsed, or parses
\* to null (snapshot.fileSuffixKey of null)
FinderThrows(sub) ==
    \E p \in Paths : InScope(p, sub) /\ disk[p].kind \in {"garbage", "null"}

\* variant: the name is added under every sub-directory
Consulted_AnySubDirectory(fileName) ==
    readFiles \cup {<<sub, fileName[2]>> : sub \in SubDirs}

\* variant: the set is replaced by the name just read
Consulted_Only(fileName) == {fileName}

\* readFiles.add(fileName)
Consulted(fileName) == readFiles \cup {fileName}

\* ------------------------------------------------- the shutdown report ---
\* unusedSnapshotsLogFile, relative to the snapshot directory
UnusedSnapshotsLogFile == <<"", "unused-snapshots.log">>
\* the report file: whether it exists, and the file names it lists
NoReport == [exists |-> FALSE, files |-> {}]
\* the report an earlier run left behind
StaleReport == [exists |-> TRUE, files |-> {}]

\* readExistingSnapshotFilesList(dir): fs.readdir fails on a directory that
\* does not exist, and then nothing is cached
Listed(dir) ==
    IF dir \in dirsOnDisk THEN existingSnapshotFilesList \cup {dir}
    ELSE existingSnapshotFilesList
\* the recursive listing of the snapshot directory, relative to it
ExistingSnapshotFiles ==
    {<<p[2], p[3]>> : p \in {q \in Paths : disk[q] # Absent}}
        \cup (IF report.exists THEN {UnusedSnapshotsLogFile} ELSE {})

\* variant: the filter does not look at readFiles
UnusedFiles_All(list) == {file \in list : file # UnusedSnapshotsLogFile}

\* the filter of the 'beforeExit' handler
UnusedFiles(list) ==
    {file \in list : file \notin readFiles /\ file # UnusedSnapshotsLogFile}

\* variant: the handler does not look at the mode
ExitRuns_AnyMode == ~beforeExitEventSeen

\* variant: the handler does not look at beforeExitEventSeen
ExitRuns_NoFlag == SNAPSHOT = "read"

\* the condition of the 'beforeExit' handler (snapshotDirectory is set by start)
ExitRuns == SNAPSHOT = "read" /\ ~beforeExitEventSeen

\* ------------------------------------------- findClosestSnapshotFile ------
\* characters of a fileSuffixKey
Alphabet == {"x", "y"}
\* longest fileSuffixKey
MaxKeyLen == 3
\* number of calls of startTestCase and endTestCase
MaxCalls == 4
\* fileSuffixKey values: the generator joins method, url and body with '#',
\* so a key is never empty
SuffixKeys == UNION {[1..n -> Alphabet] : n \in 1..MaxKeyLen}
\* base names as '-' separated tokens, in the order readdir lists them
ListOrder == << <<"p", "1">>, <<"p", "x", "2">>, <<"q", "1">> >>
Names == {ListOrder[i] : i \in 1..Len(ListOrder)}
FilePrefixes == {<<"p">>, <<"q">>}
\* content of a listed file: absent, not JSON, or a snapshot with a key
FAbsent == [kind |-> "ENOENT", key |-> <<>>]
FGarbage == [kind |-> "garbage", key |-> <<>>]
FSnapshot(k) == [kind |-> "json", key |-> k]
NoMatch == [file |-> <<>>, fileSuffixKey |-> <<>>]

\* basename(file).startsWith(`${filePrefix}-`)
StartsWith(name, filePrefix) ==
    /\ Len(name) > Len(filePrefix)
    /\ SubSeq(name, 1, Len(filePrefix)) = filePrefix

Max(a, b) == IF a >= b THEN a ELSE b
\* length of a longest common subsequence: diffChars (Myers) returns a
\* shortest edit script, whose unchanged parts have this total length
RECURSIVE LCS(_, _)
LCS(s, t) ==
    IF s = <<>> \/ t = <<>> THEN 0
    ELSE IF Head(s) = Head(t) THEN 1 + LCS(Tail(s), Tail(t))
    ELSE Max(LCS(Tail(s), t), LCS(s, Tail(t)))

\* diffChars(oldStr, newStr), as the total lengths of its three kinds of part
diffChars(oldStr, newStr) ==
    LET common == LCS(oldStr, newStr)
    IN [common |-> common, removed |-> Len(oldStr) - common,
        added |-> Len(newStr) - common]

\* diffRatio as a fraction: changed characters over all characters
DiffRatio(differences) ==
    [num |-> differences.added + differences.removed,
     den |-> differences.common + differences.added + differences.removed]
\* a < b on fractions with den >= 0
Less(a, b) == a.num * b.den < b.num * a.den
Half == [num |-> 1, den |-> 2]
Infinity == [num |-> 1, den |-> 0]

\* variant: no threshold
Closer_NoThreshold(diffRatio, smallestDiff) == Less(diffRatio, smallestDiff)

\* `diffRatio < 0.5 && diffRatio < smallestDiff`
Closer(diffRatio, smallestDiff) ==
    Less(diffRatio, Half) /\ Less(diffRatio, smallestDiff)

\* filesWithSamePrefix: the listed files whose base name has the prefix
FilesWithSamePrefix(filePrefix) ==
    SelectSeq(ListOrder, LAMBDA name :
        files[name] # FAbsent /\ StartsWith(name, filePrefix))

\* the forEach over fileContents from item i on
RECURSIVE Closest(_, _, _, _, _)
Closest(list, i, fileSuffixKey, closest, smallestDiff) ==
    IF i > Len(list) THEN closest
    ELSE LET item == [file |-> list[i], fileSuffixKey |-> files[list[i]].key]
             diffRatio == DiffRatio(diffChars(item.fileSuffixKey, fileSuffixKey))
         IN IF Closer(diffRatio, smallestDiff)
            THEN Closest(list, i + 1, fileSuffixKey, item, diffRatio)
            ELSE Closest(list, i + 1, fileSuffixKey, closest, smallestDiff)

\* JSON.parse of a candidate throws inside Promise.all
CandidateThrows(filePrefix) ==
    \E i \in 1..Len(FilesWithSamePrefix(filePrefix)) :
        files[FilesWithSamePrefix(filePrefix)[i]] = FGarbage

\* the value findClosestSnapshotFile returns when no candidate throws
findClosestSnapshotFile(filePrefix, fileSuffixKey) ==
    IF SNAPSHOT # "read" THEN NoMatch
    ELSE Closest(FilesWithSamePrefix(filePrefix), 1, fileSuffixKey, NoMatch,
                 Infinity)

\* variant: the hint looks at the file name only
Hint_ByName(match, fileSuffixKey) ==
    IF match = NoMatch THEN "none" ELSE "changed"

\* the hint readSnapshot prints with the miss
Hint(match, fileSuffixKey) ==
    IF match = NoMatch THEN "none"
    ELSE IF match.fileSuffixKey = fileSuffixKey THEN "renamed"
    ELSE "changed"

\* no call of the finder is being examined
FinderIdle ==
    /\ files = [n \in Names |-> FAbsent]
    /\ wanted = [filePrefix |-> <<"p">>, fileSuffixKey |-> <<"x">>]
    /\ closestMatch = NoMatch
    /\ diagnostic = ""
    /\ finderPc = "idle"

\* --------------------------------------- one record written and replayed --
\* JSON values a body may hold: two objects
JsonValues == {[TableName |-> <<"users">>], [Limit |-> <<"1">>]}
\* the value of a text that is not JSON
NoValue == [none |-> <<>>]
\* body texts: the compact and the indented JSON text of a value, a text
\* that is not JSON, and the empty text
CompactText(value) == [form |-> "compact", value |-> value]
PrettyText(value) == [form |-> "pretty", value |-> value]
RawText == [form |-> "raw", value |-> NoValue]
EmptyText == [form |-> "", value |-> NoValue]
Texts == {CompactText(v) : v \in JsonValues} \cup {PrettyText(v) : v \in JsonValues}
            \cup {RawText, EmptyText}
\* response.json() / JSON.parse throws on a text that is not JSON
JsonThrows(text) == text.form \notin {"compact", "pretty"}
JsonParse(text) == text.value
\* JSON.stringify(value): no white space
JsonStringify(value) == CompactText(value)
\* the UTF-8 length of a text: the indented text is longer than the compact
TextLength(text) ==
    CASE text.form = "" -> 0
      [] text.form = "compact" -> 2
      [] text.form = "pretty" -> 5
      [] OTHER -> 3

\* content codings a response may declare, one per header value
Codings == {"br", "gzip", "deflate", "compress", "zstd", "identity"}
\* `contentEncoding[1].includes(coding)` on a value naming one coding
Includes(value, coding) == value = coding
\* bytes: a text under a coding ("" when the text is sent as it is)
Buffer(coding, text) == [coding |-> coding, text |-> text]
\* bufferBody.byteLength: each compressed format adds its own framing
ByteLength(buffer) ==
    TextLength(buffer.text) +
        CASE buffer.coding = "br" -> 1
          [] buffer.coding = "gzip" -> 18
          [] buffer.coding = "deflate" -> 6
          [] OTHER -> 0
\* string.toLowerCase() of the header names a server sends and of the words
\* of a method or operation name; every other string here is lower-case
ToLowerCase(string) ==
    CASE string = "Content-Encoding" -> "content-encoding"
      [] string = "Content-Length" -> "content-length"
      [] string = "Content-Type" -> "content-type"
      [] string = "GET" -> "get"
      [] string = "POST" -> "post"
      [] string = "Get" -> "get"
      [] string = "Put" -> "put"
      [] string = "Item" -> "item"
      [] OTHER -> string
\* variant: the names are listed as they were sent
Entries_AsSent(headers) == headers

\* [...headers.entries()]: <<name, value>> tuples with lower-case names
\* (sorted by name: the header lists here are built in that order)
Entries(headers) ==
    [i \in 1..Len(headers) |-> <<ToLowerCase(headers[i][1]), headers[i][2]>>]

\* headers.find(tuple => tuple[0]?.toLowerCase() === name), <<>> if none
Find(headers, name) ==
    LET found == SelectSeq(headers, LAMBDA tuple : ToLowerCase(tuple[1]) = name)
    IN IF found = <<>> THEN <<>> ELSE Head(found)
\* headers.get(name) || ''
Get(headers, name) ==
    IF Find(headers, name) = <<>> THEN "" ELSE Find(headers, name)[2]

\* the text a client reads from a response: fetch undoes the coding its
\* content-encoding header names; bytes under another coding do not decode
Decoded(response) ==
    IF response.body.coding \in {"", Get(response.headers, "content-encoding")}
    THEN response.body.text
    ELSE RawText

\* the statuses of a response that has no body
NullBodyStatus == {101, 204, 205, 304}

\* the header list of a response: the optional headers that are present
HeaderList(encoding, length, type) ==
    (IF encoding = "" THEN <<>> ELSE << <<"Content-Encoding", encoding>> >>)
    \o (IF length < 0 THEN <<>> ELSE << <<"Content-Length", length>> >>)
    \o (IF type = "" THEN <<>> ELSE << <<"Content-Type", type>> >>)

\* Live responses as the "response" event delivers them: `text` is what
\* response.text() yields, and the content-length, when sent, is the length
\* of the bytes on the wire.  The client holds the headers in a Headers
\* object, whatever the case of the names the server sent.
LiveResponses ==
    UNION {
        {[status |-> s, statusText |-> st, text |-> t,
          headers |-> HeaderList(e, l, ct)] :
            st \in {"", "OK"},
            ct \in {"", "application/json", "application/x-amz-json-1.0", "text/html"},
            l \in {-1, ByteLength(Buffer(e, t))}} :
        <<s, t, e>> \in {x \in {200, 204} \X Texts \X (Codings \cup {""}) :
                           x[1] \in NullBodyStatus => x[2] = EmptyText}}

NoRecord == [responseType |-> "", response |-> <<>>]
NoResponse == [status |-> 0]
NoBuffer == [coding |-> "", text |-> <<>>]

\* saveFreshSnapshot: responseType and responseBody of a response
IsJsonType(contentType) ==
    contentType \in {"application/json", "application/x-amz-json-1.0"}
ResponseType(response) ==
    IF IsJsonType(Get(response.headers, "content-type")) /\ ~JsonThrows(response.text)
    THEN "json" ELSE "text"
ResponseBody(response) ==
    IF ResponseType(response) = "json" THEN JsonParse(response.text)
    ELSE response.text

\* saveFreshSnapshot: the response part of the snapshot
SnapshotOf(response) ==
    [responseType |-> ResponseType(response),
     response |-> [status |-> response.status,
                   statusText |-> response.statusText,
                   headers |-> Entries(response.headers),
                   body |-> ResponseBody(response)]]

\* sendResponse: encodedBody
EncodedBody(snapshot) ==
    IF snapshot.responseType = "json" THEN JsonStringify(snapshot.response.body)
    ELSE snapshot.response.body

\* sendResponse: the coding the body is compressed with, "" when the
\* content-encoding is absent or unknown, "throw" when it is not supported
Recompress_GzipOnly(contentEncoding) ==
    IF contentEncoding = <<>> THEN ""
    ELSE IF Includes(contentEncoding[2], "gzip") THEN "gzip"
    ELSE ""

Recompress(contentEncoding) ==
    IF contentEncoding = <<>> THEN ""
    ELSE IF Includes(contentEncoding[2], "br") THEN "br"
    ELSE IF Includes(contentEncoding[2], "gzip") THEN "gzip"
    ELSE IF Includes(contentEncoding[2], "deflate") THEN "deflate"
    ELSE IF Includes(contentEncoding[2], "compress") THEN "throw"
    ELSE IF Includes(contentEncoding[2], "zstd") THEN "throw"
    ELSE ""

\* sendResponse: the headers given to `new Headers`
NewHeaders(snapshot, buffer) ==
    [i \in 1..Len(snapshot.response.headers) |->
        LET tuple == snapshot.response.headers[i]
        IN IF tuple[1] = "content-length" /\ snapshot.responseType = "json"
           THEN <<tuple[1], ByteLength(buffer)>>
           ELSE tuple]

\* no record is being written or replayed
SynthIdle ==
    /\ live = NoResponse
    /\ record = NoRecord
    /\ bufferBody = NoBuffer
    /\ newResponse = NoResponse
    /\ sendErr = ""
    /\ sendPc = "idle"
    /\ replays = 0

\* -------------------------------------- defaultSnapshotFileNameGenerator --
\* Strings are sequences of words: hostname labels, path segments, the
\* words of a camel-case name.  slugify lower-cases the words and joins
\* them with '-', so a slug is the sequence of its lower-case words.
\* The requests: method, URL (host name and path), the value of the
\* x-amz-target header (<<>> when it is not sent) and the body (none, a text
\* that is not JSON, JSON with and without TableName).
Requests ==
    [method : {"GET", "POST"},
     hostname : {<<"xkcd", "com">>, <<"dynamodb", "com">>,
                 <<"dynamodb", "eu-west-1", "amazonaws", "com">>},
     pathname : {<<>>, <<"info", ".json">>},
     target : {<<>>, <<"DynamoDB_20120810", ".", "Get", "Item">>,
               <<"DynamoDB_20120810", ".", "Put", "Item">>},
     body : {text \in Texts : text.form # "pretty"}]

\* url.hostname.match(dynamodbHostNameRegex): matches[1], <<>> if no match
\* (the `\d+.ddb` form of the host name is not among the requests)
Matches(hostname) ==
    IF /\ Len(hostname) = 4
       /\ hostname[1] = "dynamodb"
       /\ hostname[3] = "amazonaws"
       /\ hostname[4] = "com"
    THEN <<hostname[2]>> ELSE <<>>

\* slugify(string) of a string given as its words
Slugify(words) == [i \in 1..Len(words) |-> ToLowerCase(words[i])]
\* target?.split?.('.')?.pop?.() || ''
LastSegment(target) ==
    IF \E i \in 1..Len(target) : target[i] = "."
    THEN LET dot == CHOOSE i \in 1..Len(target) :
                        target[i] = "." /\ \A j \in (i + 1)..Len(target) : target[j] # "."
         IN SubSeq(target, dot + 1, Len(target))
    ELSE target
\* url.pathname.replace('.json', '')
ReplaceJson(pathname) == SelectSeq(pathname, LAMBDA w : w # ".json")
\* parts.filter(Boolean).join('-'): the words of the parts that are not empty
RECURSIVE JoinParts(_)
JoinParts(parts) ==
    IF parts = <<>> THEN <<>> ELSE Head(parts) \o JoinParts(Tail(parts))

\* the error the generator throws for the request, "" if none:
\* JSON.parse of the body, then slugify of a TableName that is not a string
GeneratorThrows(request) ==
    IF Matches(request.hostname) = <<>> THEN ""
    ELSE IF JsonThrows(request.body) THEN "SyntaxError"
    ELSE IF "TableName" \notin DOMAIN JsonParse(request.body) THEN "TypeError"
    ELSE ""

\* variant: the whole x-amz-target value goes into the key
DataList_WithTarget(request) ==
    <<request.method, <<request.hostname, request.pathname>>, request.body,
      request.target>>

\* dataList: method, url and body of the request
DataList(request) ==
    <<request.method, <<request.hostname, request.pathname>>, request.body>>

\* defaultSnapshotFileNameGenerator(request), when it does not throw
defaultSnapshotFileNameGenerator(request) ==
    LET matches == Matches(request.hostname)
        filePrefix ==
            IF matches # <<>>
            THEN JoinParts(<< <<"dynamodb">>, matches,
                              Slugify(LastSegment(request.target)),
                              Slugify(JsonParse(request.body).TableName) >>)
            ELSE JoinParts(<< <<ToLowerCase(request.method)>>,
                              Slugify(request.hostname),
                              Slugify(ReplaceJson(request.pathname)) >>)
    IN [filePrefix |-> filePrefix, fileSuffixKey |-> DataList(request)]

\* createHash('sha256').update(fileSuffixKey).digest('base64url').slice(0, 15)
Hash(fileSuffixKey) == <<"sha256", fileSuffixKey>>
\* getSnapshotFileInfo(request) from the generator's result
SnapshotFileInfo(fingerprint) ==
    LET fileName == <<snapshotSubDirectory, fingerprint.filePrefix,
                      Hash(fingerprint.fileSuffixKey)>>
    IN [absoluteFilePath |-> <<SnapshotDirectory>> \o fileName,
        fileName |-> fileName,
        filePrefix |-> fingerprint.filePrefix,
        fileSuffixKey |-> fingerprint.fileSuffixKey]
NoFileInfo ==
    [absoluteFilePath |-> <<>>, fileName |-> <<>>, filePrefix |-> <<>>,
     fileSuffixKey |-> <<>>]

\* two requests whose identities are compared
Callers == {1, 2}
\* no call of the generator is being examined
GenIdle ==
    /\ requests = <<>>
    /\ generated = [i \in Callers |-> NoFileInfo]
    /\ genErr = [i \in Callers |-> ""]
    /\ genPc = [i \in Callers |-> "idle"]

\* ------------------------------------------------------------- Init -----
\* the key whose digest names the file
KeyOf(p) == CHOOSE k \in Keys : Digest(k) = p[3]
\* the files the snapshot directory may hold when the process starts
InitialKinds ==
    {kinds \in [Paths -> {"ENOENT", "json", "garbage", "null"}] :
        /\ kinds[AbsoluteFilePath(FileName("", "b"))] \in {"ENOENT", "garbage"}
        /\ kinds[AbsoluteFilePath(FileName("t", "a"))] \in {"ENOENT", "json"}
        /\ kinds[AbsoluteFilePath(FileName("t", "b"))] = "ENOENT"}
\* no request event yet
NoBinding == [snapshotSubDirectory |-> "", shouldIgnoreSnapshot |-> FALSE]
\* no write decision taken yet
NoDecision == [atEvent |-> "", afterLog |-> ""]

\* The engine once start({snapshotDirectory}) has returned, given the files
\* of the snapshot directory: a directory exists when it holds a file, and
\* a snapshot directory that exists holds the report of the previous run.
Started ==
    /\ snapshotSubDirectory = ""
    /\ snapshotFileNameGenerator = "default"
    /\ snapshotIgnoreRules = "default"
    /\ dirsOnDisk = LET used == {Dirname(p) : p \in {q \in Paths : disk[q] # Absent}}
                    IN IF used = {} THEN {} ELSE used \cup {RootDir}
    /\ snapshotCache = [p \in Paths |-> Undefined]
    /\ readFiles = {}
    /\ alreadyWrittenFiles = [p \in Paths |-> 0]
    /\ existingSubDirectories = {}
    /\ dirCreatePromise = "none"
    /\ cache = [r \in Req |-> NoInfo]
    /\ ignoredRequests = {}
    /\ pc = [r \in Req |-> "idle"]
    /\ body = [r \in Req |-> ""]
    /\ pendingKey = [r \in Req |-> ""]
    /\ atRequest = [r \in Req |-> NoBinding]
    /\ info = [r \in Req |-> NoInfo]
    /\ injected = [r \in Req |-> Undefined]
    /\ err = [r \in Req |-> ""]
    /\ savePc = [r \in Req |-> "none"]
    /\ awaiting = [r \in Req |-> 0]
    /\ fsReads = {}
    /\ decisions = [r \in Req |-> NoDecision]
    /\ writeCalls = [p \in Paths |-> 0]
    /\ lastSaver = [p \in Paths |-> 0]
    /\ firstSaver = [p \in Paths |-> 0]
    /\ readOk = {}
    /\ missed = {}
    /\ hitWritten = {}
    /\ disk0 = disk
    /\ mkdirCalls = [saveFreshSnapshot |-> [d \in Dirs |-> 0], dirCreatePromise |-> 0]
    /\ beforeExitEventSeen = FALSE
    /\ existingSnapshotFilesList = {}
    /\ exitPc = "idle"
    /\ unusedFiles = {}
    /\ report = IF RootDir \in dirsOnDisk THEN StaleReport ELSE NoReport
    /\ exits = 0
    /\ reportOps = 0
    /\ exitFailed = FALSE
    /\ testCalls = <<>>

\* The state after start({snapshotDirectory}): the snapshot directory holds
\* a mix of snapshot files, files that do not parse and files holding the
\* JSON text null; a directory exists when it holds a file.
\* start() has been called once: interceptor = new BatchInterceptor(...),
\* interceptor.apply()
Applied ==
    /\ interceptor = 1
    /\ applied = {1}
    /\ lifecycle = <<>>

Init ==
    /\ SNAPSHOT \in Modes
    /\ \E kinds \in InitialKinds :
         disk = [p \in Paths |->
                   CASE kinds[p] = "ENOENT" -> Absent
                     [] kinds[p] = "garbage" -> Garbage
                     [] kinds[p] = "null" -> NullText
                     [] OTHER -> Stringify(Snapshot(KeyOf(p), 0))]
    /\ Started
    /\ faults = 0
    /\ Applied
    /\ bodies = {"a"}
    /\ LOG_REQ = ""
    /\ FinderIdle
    /\ SynthIdle
    /\ GenIdle


\* ------------------------------------------------- "request" handler -----
\* sendResponse(controller, snapshot): controller.respondWith(newResponse)
sendResponse(r, snapshot) ==
    /\ injected' = [injected EXCEPT ![r] = snapshot]
    /\ pc' = [pc EXCEPT ![r] = "responded"]
    /\ err' = err

\* throw inside the handler of r
Throw(r, message) ==
    /\ pc' = [pc EXCEPT ![r] = "error"]
    /\ err' = [err EXCEPT ![r] = message]
    /\ injected' = injected

\* readSnapshotAndSendResponse once readSnapshot has returned `snapshot`
SendIfSnapshot(r, snapshot) ==
    IF Truthy(snapshot)
    THEN sendResponse(r, snapshot)
    ELSE /\ pc' = [pc EXCEPT ![r] = "passthrough"]
         /\ UNCHANGED <<injected, err>>

\* interceptor.on('request'): from the event up to the first await.  The
\* interceptor delivers request objects in the order 1, 2, ..., and none once
\* the process has emitted 'beforeExit' (its event loop has run empty).
RequestEvent(r, k) ==
    /\ pc[r] = "idle"
    /\ exits = 0
    /\ k \in bodies
    /\ \A q \in Req : q < r => pc[q] # "idle"
    /\ body' = [body EXCEPT ![r] = k]
    /\ LET shouldIgnoreSnapshot == ShouldIgnore(snapshotIgnoreRules)
       IN /\ ignoredRequests' = IF shouldIgnoreSnapshot
                                THEN ignoredRequests \cup {r} ELSE ignoredRequests
          /\ IF IgnoredIsFatal(shouldIgnoreSnapshot)
             THEN Throw(r, "Request ignored by snapshot ignore rules")
             ELSE IF ShouldRead(shouldIgnoreSnapshot)
             THEN /\ pc' = [pc EXCEPT ![r] = "reqInfo"]
                  /\ UNCHANGED <<injected, err>>
             ELSE /\ pc' = [pc EXCEPT ![r] = "passthrough"]
                  /\ UNCHANGED <<injected, err>>
          /\ pendingKey' =
                IF ~IgnoredIsFatal(shouldIgnoreSnapshot) /\ ShouldRead(shouldIgnoreSnapshot)
                THEN [pendingKey EXCEPT ![r] = FileSuffixKeyOf(snapshotFileNameGenerator, k)]
                ELSE pendingKey
    /\ UNCHANGED <<settings, shutdown, finder, calls, existingSnapshotFilesList,
                   fsys, snapshotCache, readFiles, alreadyWrittenFiles,
                   existingSubDirectories, dirCreatePromise, cache, info, saves,
                   fsReads, writeCalls, lastSaver, firstSaver, readOk, missed,
                   hitWritten, disk0, mkdirCalls, decisions>>

\* the settings the request event of r found, kept beside it
Bound(r) ==
    atRequest' = [atRequest EXCEPT ![r] =
                    [snapshotSubDirectory |-> snapshotSubDirectory,
                     shouldIgnoreSnapshot |-> ShouldIgnore(snapshotIgnoreRules)]]

\* getSnapshotFileInfo resolves; cache.set; readSnapshot up to fs.readFile,
\* or through sendResponse when the path is in snapshotCache
RequestGetInfo(r) ==
    /\ pc[r] = "reqInfo"
    /\ LET snapshotFileInfo == getSnapshotFileInfo(r)
           path == snapshotFileInfo.absoluteFilePath
       IN /\ cache' = [cache EXCEPT ![r] = snapshotFileInfo]
          /\ info' = [info EXCEPT ![r] = snapshotFileInfo]
          /\ hitWritten' = IF alreadyWrittenFiles[path] # 0
                              /\ savePc[alreadyWrittenFiles[path]] = "fulfilled"
                           THEN hitWritten \cup {r} ELSE hitWritten
          /\ IF ~Truthy(snapshotCache[path])
             THEN /\ pc' = [pc EXCEPT ![r] = "reqRead"]
                  /\ fsReads' = fsReads \cup {r}
                  /\ UNCHANGED <<injected, err>>
             ELSE /\ SendIfSnapshot(r, snapshotCache[path])
                  /\ UNCHANGED fsReads
    /\ UNCHANGED <<settings, shutdown, finder, calls, existingSnapshotFilesList,
                   fsys, snapshotCache, readFiles, alreadyWrittenFiles,
                   existingSubDirectories, dirCreatePromise, ignoredRequests, body, pendingKey,
                   saves, writeCalls, lastSaver, firstSaver, readOk, missed, disk0,
                   mkdirCalls, decisions, atRequest>>

\* fs.readFile settles: the catch block, or JSON.parse and the cache update
RequestReadFile(r) ==
    /\ pc[r] = "reqRead"
    /\ LET path == info[r].absoluteFilePath
           json == disk[path]
       IN \/ \* any error other than ENOENT
             /\ faults < MaxFaults
             /\ faults' = faults + 1
             /\ Throw(r, "EIO")
             /\ UNCHANGED <<snapshotCache, readFiles, readOk, missed>>
          \/ /\ json = Absent
             /\ pc' = [pc EXCEPT ![r] = OnENOENT]
             /\ missed' = missed \cup {r}
             /\ UNCHANGED <<injected, err, snapshotCache, readFiles, readOk, faults>>
          \/ /\ json # Absent
             /\ ParseThrows(json)
             /\ Throw(r, "SyntaxError")
             /\ UNCHANGED <<snapshotCache, readFiles, readOk, missed, faults>>
          \/ /\ json # Absent
             /\ ~ParseThrows(json)
             /\ snapshotCache' = [snapshotCache EXCEPT ![path] = Parse(json)]
             /\ readFiles' = Consulted(info[r].fileName)
             /\ readOk' = readOk \cup {path}
             /\ SendIfSnapshot(r, Parse(json))
             /\ UNCHANGED <<missed, faults>>
    /\ UNCHANGED <<settings, shutdown, finder, calls, existingSnapshotFilesList,
                   disk, dirsOnDisk, alreadyWrittenFiles,
                   existingSubDirectories, dirCreatePromise, cache, ignoredRequests,
                   body, pendingKey, info, saves, fsReads, writeCalls, lastSaver, firstSaver,
                   hitWritten, disk0, mkdirCalls, decisions, atRequest>>

\* findClosestSnapshotFile settles (read mode, ENOENT): it rejects when a
\* candidate cannot be read or parsed, otherwise the handler reports the
\* miss and throws.  The listing of the directory it searched is cached.
RequestFindClosest(r) ==
    /\ pc[r] = "reqFind"
    /\ \/ /\ FinderThrows(info[r].fileName[1])
          /\ Throw(r, "SyntaxError")
          /\ UNCHANGED faults
       \/ /\ ~FinderThrows(info[r].fileName[1])
          /\ \E p \in Paths : InScope(p, info[r].fileName[1]) /\ disk[p] # Absent
          /\ faults < MaxFaults
          /\ faults' = faults + 1
          /\ Throw(r, "EACCES")
       \/ /\ ~FinderThrows(info[r].fileName[1])
          /\ Throw(r, "Network request not mocked")
          /\ UNCHANGED faults
    /\ existingSnapshotFilesList' = Listed(<<SnapshotDirectory, info[r].fileName[1]>>)
    /\ UNCHANGED <<settings, shutdown, finder, calls, disk, dirsOnDisk, engine, body, pendingKey, info,
                   saves, hist>>


\* ------------------------------------------------ "response" handler -----
\* variant: the write decision does not look at the mode
ShouldSave_AnyMode(r, snapshotFileInfo) ==
    /\ r \notin ignoredRequests
    /\ snapshotFileInfo.fileName \notin readFiles

\* variant: update mode is not a writing mode
ShouldSave_AppendOnly(r, snapshotFileInfo) ==
    /\ r \notin ignoredRequests
    /\ SNAPSHOT = "append" /\ snapshotFileInfo.fileName \notin readFiles

\* variant: append mode does not look at readFiles
ShouldSave_NoReadCheck(r, snapshotFileInfo) ==
    /\ r \notin ignoredRequests
    /\ SNAPSHOT \in {"update", "append"}

\* variant: the write decision does not look at ignoredRequests
ShouldSave_IgnoredToo(r, snapshotFileInfo) ==
    \/ SNAPSHOT = "update"
    \/ SNAPSHOT = "append" /\ snapshotFileInfo.fileName \notin readFiles

\* the write decision of the response handler
ShouldSave(r, snapshotFileInfo) ==
    /\ r \notin ignoredRequests
    /\ \/ SNAPSHOT = "update"
       \/ SNAPSHOT = "append" /\ snapshotFileInfo.fileName \notin readFiles

\* from the write decision up to `await dirCreatePromise`
Decide(r, snapshotFileInfo) ==
    IF ShouldSave(r, snapshotFileInfo)
    THEN /\ IF dirCreatePromise = "none"
            THEN /\ dirCreatePromise' = "pending"
                 /\ mkdirCalls' = [mkdirCalls EXCEPT !.dirCreatePromise = @ + 1]
            ELSE UNCHANGED <<dirCreatePromise, mkdirCalls>>
         /\ pc' = [pc EXCEPT ![r] = "respDir"]
    ELSE /\ pc' = [pc EXCEPT ![r] = "respDone"]
         /\ UNCHANGED <<dirCreatePromise, mkdirCalls>>

\* the LOG_REQ block of the 'response' handler: only 'detailed' awaits, the
\* other values print (or not) and go on to the write decision
LogOrDecide(r, snapshotFileInfo) ==
    IF LOG_REQ = "detailed"
    THEN /\ pc' = [pc EXCEPT ![r] = "respLogRequest"]
         /\ decisions' = [decisions EXCEPT ![r].atEvent =
                            IF ShouldSave(r, snapshotFileInfo) THEN "save" ELSE "skip"]
         /\ UNCHANGED <<dirCreatePromise, mkdirCalls>>
    ELSE /\ Decide(r, snapshotFileInfo)
         /\ UNCHANGED decisions

\* variant: the response handler finds no entry
Lookup_Miss(r) == NoInfo

\* cache.get(request)
Lookup(r) == cache[r]

\* interceptor.on('response'): from the event up to the first await
ResponseEvent(r) ==
    /\ pc[r] \in {"responded", "passthrough"}
    /\ IF Lookup(r) # NoInfo
       THEN /\ info' = [info EXCEPT ![r] = Lookup(r)]
            /\ cache' = [cache EXCEPT ![r] = NoInfo]
            /\ LogOrDecide(r, Lookup(r))
            /\ UNCHANGED pendingKey
       ELSE /\ pc' = [pc EXCEPT ![r] = "respInfo"]
            /\ pendingKey' = [pendingKey EXCEPT ![r] =
                                 FileSuffixKeyOf(snapshotFileNameGenerator, body[r])]
            /\ UNCHANGED <<info, cache, dirCreatePromise, mkdirCalls, decisions>>
    /\ UNCHANGED <<settings, shutdown, finder, calls, existingSnapshotFilesList,
                   fsys, snapshotCache, readFiles, alreadyWrittenFiles,
                   existingSubDirectories, ignoredRequests, body, injected, err,
                   saves, fsReads, writeCalls, lastSaver, firstSaver, readOk, missed,
                   hitWritten, disk0, atRequest>>

\* getSnapshotFileInfo resolves in the response handler
ResponseGetInfo(r) ==
    /\ pc[r] = "respInfo"
    /\ info' = [info EXCEPT ![r] = getSnapshotFileInfo(r)]
    /\ cache' = [cache EXCEPT ![r] = NoInfo]
    /\ LogOrDecide(r, getSnapshotFileInfo(r))
    /\ UNCHANGED <<settings, shutdown, finder, calls, existingSnapshotFilesList,
                   fsys, snapshotCache, readFiles, alreadyWrittenFiles,
                   existingSubDirectories, ignoredRequests, body, pendingKey, injected, err,
                   saves, fsReads, writeCalls, lastSaver, firstSaver, readOk, missed,
                   hitWritten, disk0, atRequest>>

\* what reading a clone of the request or of the response does to the engine
Cloned_MarksRead(r) ==
    /\ readFiles' = readFiles \cup {info[r].fileName}
    /\ UNCHANGED <<snapshotCache, alreadyWrittenFiles, existingSubDirectories,
                   dirCreatePromise, cache, ignoredRequests>>
Cloned(r) ==
    UNCHANGED engine

\* await request.clone().text() of the detailed log resolves
ResponseLogRequest(r) ==
    /\ pc[r] = "respLogRequest"
    /\ pc' = [pc EXCEPT ![r] = "respLogResponse"]
    /\ Cloned(r)
    /\ UNCHANGED <<settings, shutdown, finder, calls, existingSnapshotFilesList,
                   fsys, body, pendingKey, info, injected, err, saves, hist>>

\* await response.clone().text() of the detailed log resolves: console.debug,
\* then the write decision
ResponseLogged(r) ==
    /\ pc[r] = "respLogResponse"
    /\ Decide(r, info[r])
    /\ decisions' = [decisions EXCEPT ![r].afterLog =
                       IF ShouldSave(r, info[r]) THEN "save" ELSE "skip"]
    /\ UNCHANGED <<settings, shutdown, finder, calls, existingSnapshotFilesList,
                   fsys, snapshotCache, readFiles, alreadyWrittenFiles,
                   existingSubDirectories, cache, ignoredRequests, body, pendingKey, info,
                   injected, err, saves, fsReads, writeCalls, lastSaver, firstSaver,
                   readOk, missed, hitWritten, disk0, atRequest>>

\* fs.mkdir(snapshotDirectory, {recursive: true}) of dirCreatePromise settles
DirCreateSettle ==
    /\ dirCreatePromise = "pending"
    /\ \/ /\ dirCreatePromise' = "fulfilled"
          /\ dirsOnDisk' = dirsOnDisk \cup {RootDir}
          /\ UNCHANGED faults
       \/ /\ faults < MaxFaults
          /\ faults' = faults + 1
          /\ dirCreatePromise' = "rejected"
          /\ UNCHANGED dirsOnDisk
    /\ UNCHANGED <<settings, shutdown, finder, calls, existingSnapshotFilesList,
                   disk, snapshotCache, readFiles, alreadyWrittenFiles,
                   existingSubDirectories, cache, ignoredRequests, pc, body, pendingKey, info,
                   injected, err, saves, hist>>

\* variant: fs.mkdir is called for every fresh write
SaveFresh_AlwaysMkdir(r, path, dir) ==
    /\ awaiting' = [awaiting EXCEPT ![r] = r]
    /\ alreadyWrittenFiles' = [alreadyWrittenFiles EXCEPT ![path] = r]
    /\ existingSubDirectories' = existingSubDirectories \cup {dir}
    /\ savePc' = [savePc EXCEPT ![r] = "mkdir"]
    /\ mkdirCalls' = [mkdirCalls EXCEPT !.saveFreshSnapshot[dir] = @ + 1]
    /\ UNCHANGED writeCalls

\* the fresh write of saveSnapshot: saveFreshSnapshot() up to fs.mkdir or
\* fs.writeFile, and alreadyWrittenFiles.set
SaveFresh(r, path, dir) ==
    /\ awaiting' = [awaiting EXCEPT ![r] = r]
    /\ alreadyWrittenFiles' = [alreadyWrittenFiles EXCEPT ![path] = r]
    /\ IF dir \notin existingSubDirectories
       THEN /\ existingSubDirectories' = existingSubDirectories \cup {dir}
            /\ savePc' = [savePc EXCEPT ![r] = "mkdir"]
            /\ mkdirCalls' = [mkdirCalls EXCEPT !.saveFreshSnapshot[dir] = @ + 1]
            /\ UNCHANGED writeCalls
       ELSE /\ savePc' = [savePc EXCEPT ![r] = "writeFile"]
            /\ writeCalls' = [writeCalls EXCEPT ![path] = @ + 1]
            /\ UNCHANGED <<existingSubDirectories, mkdirCalls>>

\* variant: no look-up in alreadyWrittenFiles
saveSnapshot_NoDedup(r) ==
    SaveFresh(r, info[r].absoluteFilePath, Dirname(info[r].absoluteFilePath))

\* variant: only a settled write is reused
saveSnapshot_SettledOnly(r) ==
    LET path == info[r].absoluteFilePath
    IN IF alreadyWrittenFiles[path] # 0
          /\ savePc[alreadyWrittenFiles[path]] \in {"fulfilled", "rejected"}
       THEN /\ awaiting' = [awaiting EXCEPT ![r] = alreadyWrittenFiles[path]]
            /\ UNCHANGED <<savePc, alreadyWrittenFiles, existingSubDirectories,
                           writeCalls, mkdirCalls>>
       ELSE SaveFresh(r, path, Dirname(path))

\* variant: a rejected write is not reused
saveSnapshot_RetryRejected(r) ==
    LET path == info[r].absoluteFilePath
    IN IF alreadyWrittenFiles[path] # 0
          /\ savePc[alreadyWrittenFiles[path]] # "rejected"
       THEN /\ awaiting' = [awaiting EXCEPT ![r] = alreadyWrittenFiles[path]]
            /\ UNCHANGED <<savePc, alreadyWrittenFiles, existingSubDirectories,
                           writeCalls, mkdirCalls>>
       ELSE SaveFresh(r, path, Dirname(path))

\* saveSnapshot(request, response, snapshotFileInfo) called by the handler
\* of r: the promise it returns, and the state it changes before returning.
\* saveFreshSnapshot() runs up to fs.mkdir or fs.writeFile (the body reads
\* before them touch no shared state).
saveSnapshot(r) ==
    LET path == info[r].absoluteFilePath
        dir == Dirname(path)
    IN IF alreadyWrittenFiles[path] # 0
       THEN /\ awaiting' = [awaiting EXCEPT ![r] = alreadyWrittenFiles[path]]
            /\ UNCHANGED <<savePc, alreadyWrittenFiles, existingSubDirectories,
                           writeCalls, mkdirCalls>>
       ELSE SaveFresh(r, path, dir)

\* `await dirCreatePromise` resumes
ResponseDirCreated(r) ==
    /\ pc[r] = "respDir"
    /\ dirCreatePromise \in {"fulfilled", "rejected"}
    /\ IF dirCreatePromise = "rejected"
       THEN /\ pc' = [pc EXCEPT ![r] = "respError"]
            /\ err' = [err EXCEPT ![r] = "EIO"]
            /\ UNCHANGED <<saves, alreadyWrittenFiles, existingSubDirectories,
                           writeCalls, lastSaver, firstSaver, mkdirCalls>>
       ELSE /\ pc' = [pc EXCEPT ![r] = "respSave"]
            /\ saveSnapshot(r)
            /\ lastSaver' = [lastSaver EXCEPT ![info[r].absoluteFilePath] = r]
            /\ firstSaver' = [firstSaver EXCEPT ![info[r].absoluteFilePath] =
                                 IF @ = 0 THEN r ELSE @]
            /\ UNCHANGED err
    /\ UNCHANGED <<settings, shutdown, finder, calls, existingSnapshotFilesList,
                   fsys, snapshotCache, readFiles, dirCreatePromise, cache,
                   ignoredRequests, body, pendingKey, info, injected, fsReads, readOk, missed,
                   hitWritten, disk0, decisions, atRequest>>

\* fs.mkdir(dir, {recursive: true}) in saveFreshSnapshot settles; on success
\* fs.writeFile is called
MkdirSettle(r) ==
    /\ savePc[r] = "mkdir"
    /\ LET path == info[r].absoluteFilePath
       IN \/ /\ dirsOnDisk' = dirsOnDisk \cup {Dirname(path), RootDir}
             /\ savePc' = [savePc EXCEPT ![r] = "writeFile"]
             /\ writeCalls' = [writeCalls EXCEPT ![path] = @ + 1]
             /\ UNCHANGED faults
          \/ /\ faults < MaxFaults
             /\ faults' = faults + 1
             /\ savePc' = [savePc EXCEPT ![r] = "rejected"]
             /\ UNCHANGED <<dirsOnDisk, writeCalls>>
    /\ UNCHANGED <<settings, shutdown, finder, calls, existingSnapshotFilesList,
                   disk, engine, pc, body, pendingKey, info, injected, err, awaiting,
                   fsReads, lastSaver, firstSaver, readOk, missed, hitWritten, disk0,
                   mkdirCalls, decisions, atRequest>>

\* variant: the stored key is taken from the request body
FreshSnapshot_KeyOfBody(r) == Snapshot(body[r], ResponseOf(r))

\* the snapshot saveFreshSnapshot builds from the request and response of r
FreshSnapshot(r) == Snapshot(info[r].fileSuffixKey, ResponseOf(r))

\* fs.writeFile(absoluteFilePath, json) settles: ENOENT when the directory
\* does not exist
WriteFileSettle(r) ==
    /\ savePc[r] = "writeFile"
    /\ LET path == info[r].absoluteFilePath
       IN \/ /\ Dirname(path) \in dirsOnDisk
             /\ disk' = [disk EXCEPT ![path] = Stringify(FreshSnapshot(r))]
             /\ savePc' = [savePc EXCEPT ![r] = "fulfilled"]
             /\ UNCHANGED faults
          \/ /\ Dirname(path) \notin dirsOnDisk
             /\ savePc' = [savePc EXCEPT ![r] = "rejected"]
             /\ UNCHANGED <<disk, faults>>
          \/ /\ Dirname(path) \in dirsOnDisk
             /\ faults < MaxFaults
             /\ faults' = faults + 1
             /\ savePc' = [savePc EXCEPT ![r] = "rejected"]
             /\ UNCHANGED disk
    /\ UNCHANGED <<settings, shutdown, finder, calls, existingSnapshotFilesList,
                   dirsOnDisk, engine, pc, body, pendingKey, info, injected, err,
                   awaiting, hist>>

\* fs.writeFile has opened the file (flag 'w': created or truncated) and has
\* not yet written all of the text: until it settles the file holds text
\* that is not JSON
WriteFileOpen(r) ==
    /\ savePc[r] = "writeFile"
    /\ LET path == info[r].absoluteFilePath
       IN /\ Dirname(path) \in dirsOnDisk
          /\ disk[path] # Garbage
          /\ disk' = [disk EXCEPT ![path] = Garbage]
    /\ UNCHANGED <<settings, shutdown, finder, calls, existingSnapshotFilesList,
                   dirsOnDisk, faults, engine, pc, body, pendingKey, info, injected,
                   err, saves, hist>>

\* `await saveSnapshot(...)` resumes
ResponseSaved(r) ==
    /\ pc[r] = "respSave"
    /\ savePc[awaiting[r]] \in {"fulfilled", "rejected"}
    /\ IF savePc[awaiting[r]] = "fulfilled"
       THEN /\ pc' = [pc EXCEPT ![r] = "respDone"]
            /\ UNCHANGED err
       ELSE /\ pc' = [pc EXCEPT ![r] = "respError"]
            /\ err' = [err EXCEPT ![r] = "EIO"]
    /\ UNCHANGED <<settings, shutdown, finder, calls, existingSnapshotFilesList,
                   fsys, engine, body, pendingKey, info, injected, saves, hist>>

\* ------------------------------------------------------- test code -------
startTestCase(directoryName) ==
    /\ snapshotSubDirectory = ""
    /\ snapshotSubDirectory' = directoryName
    /\ UNCHANGED <<SNAPSHOT, LOG_REQ, snapshotFileNameGenerator, snapshotIgnoreRules, bodies, shutdown, finder, calls,
                   existingSnapshotFilesList, fsys, engine, pc, body, pendingKey, info,
                   injected, err, saves, hist>>

endTestCase ==
    /\ snapshotSubDirectory # ""
    /\ snapshotSubDirectory' = ""
    /\ UNCHANGED <<SNAPSHOT, LOG_REQ, snapshotFileNameGenerator, snapshotIgnoreRules, bodies, shutdown, finder, calls,
                   existingSnapshotFilesList, fsys, engine, pc, body, pendingKey, info,
                   injected, err, saves, hist>>

attachSnapshotFilenameGenerator ==
    /\ snapshotFileNameGenerator = "default"
    /\ snapshotFileNameGenerator' = "custom"
    /\ UNCHANGED <<SNAPSHOT, LOG_REQ, snapshotSubDirectory, snapshotIgnoreRules, bodies,
                   shutdown, finder, calls, existingSnapshotFilesList, fsys, engine,
                   pc, body, pendingKey, info, injected, err, saves, hist>>

resetSnapshotFilenameGenerator ==
    /\ snapshotFileNameGenerator = "custom"
    /\ snapshotFileNameGenerator' = "default"
    /\ UNCHANGED <<SNAPSHOT, LOG_REQ, snapshotSubDirectory, snapshotIgnoreRules, bodies,
                   shutdown, finder, calls, existingSnapshotFilesList, fsys, engine,
                   pc, body, pendingKey, info, injected, err, saves, hist>>

attachSnapshotIgnoreRules ==
    /\ snapshotIgnoreRules = "default"
    /\ snapshotIgnoreRules' = "custom"
    /\ UNCHANGED <<SNAPSHOT, LOG_REQ, snapshotFileNameGenerator, snapshotSubDirectory, bodies, shutdown, finder, calls,
                   existingSnapshotFilesList, fsys, engine, pc, body, pendingKey, info,
                   injected, err, saves, hist>>

resetSnapshotIgnoreRules ==
    /\ snapshotIgnoreRules = "custom"
    /\ snapshotIgnoreRules' = "default"
    /\ UNCHANGED <<SNAPSHOT, LOG_REQ, snapshotFileNameGenerator, snapshotSubDirectory, bodies, shutdown, finder, calls,
                   existingSnapshotFilesList, fsys, engine, pc, body, pendingKey, info,
                   injected, err, saves, hist>>

\* ------------------------------------------- process.on('beforeExit') ----
\* the event loop is empty: no handler is suspended and no I/O is pending
Quiescent ==
    /\ \A r \in Req : pc[r] \in {"idle", "error", "respDone", "respError"}
    /\ \A r \in Req : savePc[r] \notin {"mkdir", "writeFile"}
    /\ dirCreatePromise # "pending"

\* the 'beforeExit' event: the handler up to `await
\* readExistingSnapshotFilesList(dir)`.  Node emits the event each time the
\* event loop runs empty; a firing while the handler is still suspended is
\* admitted as well.
BeforeExit ==
    /\ Quiescent
    /\ exits < MaxExits
    /\ exits' = exits + 1
    /\ IF ExitRuns
       THEN /\ beforeExitEventSeen' = TRUE
            /\ exitPc' = "list"
       ELSE UNCHANGED <<beforeExitEventSeen, exitPc>>
    /\ UNCHANGED <<settings, finder, calls, existingSnapshotFilesList, fsys, engine, pc, body, pendingKey,
                   info, injected, err, saves, hist, unusedFiles, report, reportOps,
                   exitFailed>>

\* from the filter up to fs.writeFile or fs.unlink of the report
ReportCall(list) ==
    /\ unusedFiles' = UnusedFiles(list)
    /\ exitPc' = IF UnusedFiles(list) # {} THEN "write" ELSE "unlink"
    /\ reportOps' = reportOps + 1

\* readExistingSnapshotFilesList(dir) settles: the cached list, the list
\* fs.readdir gives, or [] when fs.readdir fails
ExitListed ==
    /\ exitPc = "list"
    /\ \/ /\ RootDir \in existingSnapshotFilesList \/ RootDir \in dirsOnDisk
          /\ existingSnapshotFilesList' = Listed(RootDir)
          /\ ReportCall(ExistingSnapshotFiles)
          /\ UNCHANGED <<faults, exitFailed>>
       \/ /\ RootDir \notin existingSnapshotFilesList
          /\ RootDir \notin dirsOnDisk
          /\ ReportCall({})
          /\ UNCHANGED <<faults, exitFailed, existingSnapshotFilesList>>
       \/ /\ RootDir \notin existingSnapshotFilesList
          /\ RootDir \in dirsOnDisk
          /\ faults < MaxFaults
          /\ faults' = faults + 1
          /\ exitFailed' = TRUE
          /\ ReportCall({})
          /\ UNCHANGED existingSnapshotFilesList
    /\ UNCHANGED <<settings, finder, calls, disk, dirsOnDisk, engine, pc, body, pendingKey, info,
                   injected, err, saves, hist, beforeExitEventSeen, report, exits>>

\* fs.writeFile or fs.unlink of the report settles; a failure is logged
ExitSettle ==
    /\ exitPc \in {"write", "unlink"}
    /\ exitPc' = "done"
    /\ \/ /\ report' = IF exitPc = "write"
                       THEN [exists |-> TRUE, files |-> unusedFiles]
                       ELSE NoReport
          /\ UNCHANGED <<faults, exitFailed>>
       \/ /\ faults < MaxFaults
          /\ faults' = faults + 1
          /\ exitFailed' = TRUE
          /\ UNCHANGED report
    /\ UNCHANGED <<settings, finder, calls, existingSnapshotFilesList, disk, dirsOnDisk,
                   engine, pc, body, pendingKey, info, injected, err, saves, hist,
                   beforeExitEventSeen, unusedFiles, exits, reportOps>>

\* ------------------------------------- one call of the closest-file finder --
\* everything outside the finder
outside == <<settings, shutdown, existingSnapshotFilesList, fsys, engine, pc, body, pendingKey,
             info, injected, err, saves, hist>>

\* findClosestSnapshotFile(currentSnapshotDirectory, snapshotFileInfo), called
\* by readSnapshot after ENOENT, settles
FindClosest ==
    /\ finderPc = "call"
    /\ IF CandidateThrows(wanted.filePrefix)
       THEN /\ finderPc' = "threw"
            /\ UNCHANGED closestMatch
       ELSE /\ finderPc' = "returned"
            /\ closestMatch' = findClosestSnapshotFile(wanted.filePrefix,
                                                       wanted.fileSuffixKey)
    /\ UNCHANGED <<outside, calls, files, wanted, diagnostic>>

\* readSnapshot from the return of the finder to
\* `throw new Error('Network request not mocked')`
ReportMiss ==
    /\ finderPc = "returned"
    /\ diagnostic' = Hint(closestMatch, wanted.fileSuffixKey)
    /\ finderPc' = "reported"
    /\ UNCHANGED <<outside, calls, files, wanted, closestMatch>>

\* A read-mode miss: the files the listing returns and the fingerprint that
\* was not found.  A file of another prefix holds no key, or the missed one.
InitFinder ==
    /\ SNAPSHOT = "read"
    /\ disk = [p \in Paths |-> Absent]
    /\ Started
    /\ faults = 0
    /\ Applied
    /\ bodies = {"a"}
    /\ LOG_REQ = ""
    /\ wanted \in [filePrefix : FilePrefixes, fileSuffixKey : SuffixKeys]
    /\ files \in {f \in [Names -> {FAbsent, FGarbage}
                                    \cup {FSnapshot(k) : k \in SuffixKeys}] :
                    \A n \in Names :
                        ~StartsWith(n, <<"p">>) =>
                            f[n] \in {FAbsent, FGarbage,
                                      FSnapshot(wanted.fileSuffixKey)}}
    /\ closestMatch = NoMatch
    /\ diagnostic = ""
    /\ finderPc = "call"
    /\ SynthIdle
    /\ GenIdle

NextFinder ==
    \/ FindClosest
    \/ ReportMiss

SpecFinder == InitFinder /\ [][NextFinder]_vars

\* ------------------------------------- one record written and replayed ----
\* saveFreshSnapshot builds the snapshot of the live response and writes
\* JSON.stringify(snapshot, null, 2); readSnapshot parses the file
WriteRecord ==
    /\ sendPc = "live"
    /\ record' = JsonParse(PrettyText(SnapshotOf(live)))
    /\ sendPc' = "stored"
    /\ UNCHANGED <<outside, finder, gen, testCalls, life, live, bufferBody, newResponse,
                   sendErr, replays>>

\* variant: the content-length tuple of the snapshot is rewritten in place
AfterSend_LengthRewritten(snapshot, buffer) ==
    [snapshot EXCEPT !.response.headers = NewHeaders(snapshot, buffer)]

\* the snapshot object once sendResponse has built the response from it:
\* headers.map makes a new array and a new content-length tuple, and no
\* property of the snapshot is assigned
AfterSend(snapshot, buffer) == snapshot

\* sendResponse(controller, snapshot) for the record, each time a request
\* handler finds it in snapshotCache
SendRecord ==
    /\ sendPc \in {"stored", "sent", "threw"}
    /\ replays < MaxCalls
    /\ replays' = replays + 1
    /\ LET contentEncoding == Find(record.response.headers, "content-encoding")
           coding == Recompress(contentEncoding)
           buffer == Buffer(coding, EncodedBody(record))
       IN IF coding = "throw"
          THEN /\ sendErr' = contentEncoding[2] \o " encoding not supported"
               /\ sendPc' = "threw"
               /\ UNCHANGED <<bufferBody, newResponse, record>>
          ELSE /\ bufferBody' = buffer
               /\ record' = AfterSend(record, buffer)
               /\ IF record.response.status \in NullBodyStatus
                  THEN \* new Response(body, init) with a body that is not null
                       /\ sendErr' = "TypeError"
                       /\ sendPc' = "threw"
                       /\ UNCHANGED newResponse
                  ELSE /\ newResponse' =
                              [status |-> record.response.status,
                               statusText |-> record.response.statusText,
                               headers |-> NewHeaders(record, buffer),
                               body |-> buffer]
                       /\ sendPc' = "sent"
                       /\ UNCHANGED sendErr
    /\ UNCHANGED <<outside, finder, gen, testCalls, life, live>>

\* a live response reaches the response handler in update mode
InitSend ==
    /\ SNAPSHOT = "update"
    /\ disk = [p \in Paths |-> Absent]
    /\ Started
    /\ faults = 0
    /\ Applied
    /\ bodies = {"a"}
    /\ LOG_REQ = ""
    /\ FinderIdle
    /\ GenIdle
    /\ live \in LiveResponses
    /\ record = NoRecord
    /\ bufferBody = NoBuffer
    /\ newResponse = NoResponse
    /\ sendErr = ""
    /\ sendPc = "live"
    /\ replays = 0

NextSend ==
    \/ WriteRecord
    \/ SendRecord

SpecSend == InitSend /\ [][NextSend]_vars

\* --------------------------------------- getSnapshotFileInfo(request) ----
\* getSnapshotFileInfo(request) with the default generator settles
GetInfoSettle(i) ==
    /\ genPc[i] = "call"
    /\ IF GeneratorThrows(requests[i]) # ""
       THEN /\ genErr' = [genErr EXCEPT ![i] = GeneratorThrows(requests[i])]
            /\ genPc' = [genPc EXCEPT ![i] = "threw"]
            /\ UNCHANGED generated
       ELSE /\ generated' = [generated EXCEPT ![i] =
                   SnapshotFileInfo(defaultSnapshotFileNameGenerator(requests[i]))]
            /\ genPc' = [genPc EXCEPT ![i] = "returned"]
            /\ UNCHANGED genErr
    /\ UNCHANGED <<outside, finder, synth, testCalls, life, requests>>

\* two requests reach getSnapshotFileInfo while one sub-directory is active
InitGen ==
    /\ SNAPSHOT = "read"
    /\ disk = [p \in Paths |-> Absent]
    /\ Started
    /\ faults = 0
    /\ Applied
    /\ bodies = {"a"}
    /\ LOG_REQ = ""
    /\ FinderIdle
    /\ SynthIdle
    /\ requests \in [Callers -> Requests]
    /\ generated = [i \in Callers |-> NoFileInfo]
    /\ genErr = [i \in Callers |-> ""]
    /\ genPc = [i \in Callers |-> "call"]

NextGen == \E i \in Callers : GetInfoSettle(i)

SpecGen == InitGen /\ [][NextGen]_vars

\* ------------------------------------- calls of startTestCase/endTestCase --
\* variant: the running test case is not looked at
TestCaseRunning_Never == FALSE

\* `if (snapshotSubDirectory)`
TestCaseRunning == snapshotSubDirectory # ""

\* the entry of a call in the log
Called(op, directoryName, threw) ==
    [op |-> op, directoryName |-> directoryName, threw |-> threw,
     before |-> snapshotSubDirectory, after |-> snapshotSubDirectory']

\* startTestCase(directoryName), throwing or not
CallStartTestCase(directoryName) ==
    /\ Len(testCalls) < MaxCalls
    /\ IF TestCaseRunning
       THEN /\ UNCHANGED snapshotSubDirectory
            /\ testCalls' = Append(testCalls, Called("start", directoryName, TRUE))
       ELSE /\ snapshotSubDirectory' = directoryName
            /\ testCalls' = Append(testCalls, Called("start", directoryName, FALSE))
    /\ UNCHANGED <<SNAPSHOT, LOG_REQ, snapshotFileNameGenerator, snapshotIgnoreRules, bodies, shutdown, finder, synth,
                   gen, life, existingSnapshotFilesList, fsys, engine, pc, body, pendingKey, info,
                   injected, err, saves, hist>>

\* endTestCase()
CallEndTestCase ==
    /\ Len(testCalls) < MaxCalls
    /\ snapshotSubDirectory' = ""
    /\ testCalls' = Append(testCalls, Called("end", "", FALSE))
    /\ UNCHANGED <<SNAPSHOT, LOG_REQ, snapshotFileNameGenerator, snapshotIgnoreRules, bodies, shutdown, finder, synth,
                   gen, life, existingSnapshotFilesList, fsys, engine, pc, body, pendingKey, info,
                   injected, err, saves, hist>>

\* the test code calls the two functions in any order
InitTestCase ==
    /\ SNAPSHOT = "read"
    /\ disk = [p \in Paths |-> Absent]
    /\ Started
    /\ faults = 0
    /\ Applied
    /\ bodies = {"a"}
    /\ LOG_REQ = ""
    /\ FinderIdle
    /\ SynthIdle
    /\ GenIdle

NextTestCase ==
    \/ \E directoryName \in {"t", "u"} : CallStartTestCase(directoryName)
    \/ CallEndTestCase

SpecTestCase == InitTestCase /\ [][NextTestCase]_vars

\* ------------------------------------------------------ start and stop ----
\* the interceptors start has made so far
Made == {i \in 1..Len(lifecycle) : lifecycle[i].op = "start" /\ ~lifecycle[i].threw}

\* start({snapshotDirectory}): throws without a directory; else makes an
\* interceptor, registers the two handlers on it and applies it
start(snapshotDirectory) ==
    /\ Len(lifecycle) < MaxCalls
    /\ IF snapshotDirectory = ""
       THEN /\ lifecycle' = Append(lifecycle, [op |-> "start", threw |-> TRUE])
            /\ UNCHANGED <<interceptor, applied>>
       ELSE /\ lifecycle' = Append(lifecycle, [op |-> "start", threw |-> FALSE])
            /\ interceptor' = Cardinality(Made) + 1
            /\ applied' = applied \cup {Cardinality(Made) + 1}
    /\ UNCHANGED <<outside, finder, synth, gen, testCalls>>

\* stop(): interceptor.dispose() and interceptor = null, when there is one
stop ==
    /\ Len(lifecycle) < MaxCalls
    /\ lifecycle' = Append(lifecycle, [op |-> "stop", threw |-> FALSE])
    /\ IF interceptor # 0
       THEN /\ applied' = applied \ {interceptor}
            /\ interceptor' = 0
       ELSE UNCHANGED <<interceptor, applied>>
    /\ UNCHANGED <<outside, finder, synth, gen, testCalls>>

\* the module has been loaded, start has not been called
InitLife ==
    /\ SNAPSHOT = "read"
    /\ disk = [p \in Paths |-> Absent]
    /\ Started
    /\ faults = 0
    /\ interceptor = 0
    /\ applied = {}
    /\ lifecycle = <<>>
    /\ bodies = {"a"}
    /\ LOG_REQ = ""
    /\ FinderIdle
    /\ SynthIdle
    /\ GenIdle

NextLife ==
    \/ \E snapshotDirectory \in {"", SnapshotDirectory} : start(snapshotDirectory)
    \/ stop

SpecLife == InitLife /\ [][NextLife]_vars

\* ------------------------------ writes of several files in one process ----
\* Update mode on an empty snapshot directory, two request bodies: two
\* files of one directory are written by one process.
InitWrites ==
    /\ SNAPSHOT = "update"
    /\ disk = [p \in Paths |-> Absent]
    /\ Started
    /\ faults = 0
    /\ Applied
    /\ bodies = Keys
    /\ LOG_REQ = ""
    /\ FinderIdle
    /\ SynthIdle
    /\ GenIdle

NextWrites ==
    \/ \E r \in Req, k \in Keys : RequestEvent(r, k) /\ UNCHANGED atRequest
    \/ \E r \in Req : ResponseEvent(r)
    \/ \E r \in Req : ResponseGetInfo(r)
    \/ \E r \in Req : ResponseDirCreated(r)
    \/ \E r \in Req : ResponseSaved(r)
    \/ \E r \in Req : MkdirSettle(r)
    \/ \E r \in Req : WriteFileSettle(r)
    \/ DirCreateSettle
    \/ \E d \in SubDirs \ {""} : startTestCase(d)
    \/ endTestCase

SpecWrites == InitWrites /\ [][NextWrites]_vars

\* ------------------------------------- settings changed between events ----
\* The test code switches the test case, the generator and the ignore rules
\* at any moment, also between the request event and the response event of
\* a request; the settings each request event found are kept in atRequest.
\* The test code issues a request once the handlers of the one before it
\* have finished, and no file-system operation fails.
InitBind ==
    /\ SNAPSHOT \in {"read", "append", "update"}
    /\ \E kind \in {"ENOENT", "json"} :
         disk = [p \in Paths |->
                   IF KeyOf(p) = "a" /\ kind = "json"
                   THEN Stringify(Snapshot(KeyOf(p), 0))
                   ELSE Absent]
    /\ Started
    /\ faults = MaxFaults
    /\ Applied
    /\ bodies = {"a"}
    /\ LOG_REQ = ""
    /\ FinderIdle
    /\ SynthIdle
    /\ GenIdle

NextBind ==
    \/ \E r \in Req, k \in Keys :
          /\ \A q \in Req : pc[q] \in {"idle", "error", "respDone", "respError"}
          /\ RequestEvent(r, k)
          /\ Bound(r)
    \/ \E r \in Req : RequestGetInfo(r)
    \/ \E r \in Req : RequestReadFile(r)
    \/ \E r \in Req : RequestFindClosest(r)
    \/ \E r \in Req : ResponseEvent(r)
    \/ \E r \in Req : ResponseGetInfo(r)
    \/ \E r \in Req : ResponseDirCreated(r)
    \/ \E r \in Req : ResponseSaved(r)
    \/ \E r \in Req : MkdirSettle(r)
    \/ \E r \in Req : WriteFileSettle(r)
    \/ DirCreateSettle
    \/ \E d \in SubDirs \ {""} : startTestCase(d)
    \/ endTestCase
    \/ attachSnapshotFilenameGenerator
    \/ resetSnapshotFilenameGenerator
    \/ attachSnapshotIgnoreRules
    \/ resetSnapshotIgnoreRules

SpecBind == InitBind /\ [][NextBind]_vars

\* ------------------------------------- reads during a write in flight ----
\* Append mode on an empty snapshot directory, no file-system fault. The
\* test code issues a request when the response handler of each earlier
\* request is awaiting saveSnapshot or has finished, so the read of the
\* request falls before, within or after the fs.writeFile of that save.
InitAppend ==
    /\ SNAPSHOT = "append"
    /\ disk = [p \in Paths |-> Absent]
    /\ Started
    /\ faults = MaxFaults
    /\ Applied
    /\ bodies = Keys
    /\ LOG_REQ = ""
    /\ FinderIdle
    /\ SynthIdle
    /\ GenIdle

NextAppend ==
    \/ \E r \in Req, k \in Keys :
          /\ \A q \in Req \ {r} :
                pc[q] \in {"idle", "error", "responded", "respSave", "respDone",
                           "respError"}
          /\ RequestEvent(r, k)
          /\ UNCHANGED atRequest
    \/ \E r \in Req : RequestGetInfo(r)
    \/ \E r \in Req : RequestReadFile(r)
    \/ \E r \in Req : ResponseEvent(r)
    \/ \E r \in Req : ResponseDirCreated(r)
    \/ \E r \in Req : ResponseSaved(r)
    \/ \E r \in Req : MkdirSettle(r)
    \/ \E r \in Req : WriteFileOpen(r)
    \/ \E r \in Req : WriteFileSettle(r)
    \/ DirCreateSettle
    \/ \E d \in SubDirs \ {""} : startTestCase(d)
    \/ endTestCase

SpecAppend == InitAppend /\ [][NextAppend]_vars

\* ------------------------------------------------- request logging ----
\* Runs under each value of LOG_REQ: '' (unset), 'summary' and 'detailed',
\* in every mode, with the root snapshot of "a" on disk or not.
InitLog ==
    /\ SNAPSHOT \in Modes
    /\ \E kind \in {"ENOENT", "json"} :
         disk = [p \in Paths |->
                   IF p = AbsoluteFilePath(FileName("", "a")) /\ kind = "json"
                   THEN Stringify(Snapshot(KeyOf(p), 0))
                   ELSE Absent]
    /\ Started
    /\ faults = 0
    /\ Applied
    /\ bodies = {"a"}
    /\ LOG_REQ \in {"", "summary", "detailed"}
    /\ FinderIdle
    /\ SynthIdle
    /\ GenIdle

NextLog ==
    \/ \E r \in Req, k \in Keys : RequestEvent(r, k) /\ UNCHANGED atRequest
    \/ \E r \in Req : RequestGetInfo(r)
    \/ \E r \in Req : RequestReadFile(r)
    \/ \E r \in Req : RequestFindClosest(r)
    \/ \E r \in Req : ResponseEvent(r)
    \/ \E r \in Req : ResponseGetInfo(r)
    \/ \E r \in Req : ResponseLogRequest(r)
    \/ \E r \in Req : ResponseLogged(r)
    \/ \E r \in Req : ResponseDirCreated(r)
    \/ \E r \in Req : ResponseSaved(r)
    \/ \E r \in Req : MkdirSettle(r)
    \/ \E r \in Req : WriteFileSettle(r)
    \/ DirCreateSettle

SpecLog == InitLog /\ [][NextLog]_vars

\* Every file-system operation eventually completes, and the event loop
\* resumes every handler whose awaited promise has settled.  The events
\* themselves come from outside and are not forced.
FairLog ==
    /\ SpecLog
    /\ \A r \in Req :
          /\ WF_vars(RequestGetInfo(r))
          /\ WF_vars(RequestReadFile(r))
          /\ WF_vars(RequestFindClosest(r))
          /\ WF_vars(ResponseGetInfo(r))
          /\ WF_vars(ResponseLogRequest(r))
          /\ WF_vars(ResponseLogged(r))
          /\ WF_vars(ResponseDirCreated(r))
          /\ WF_vars(ResponseSaved(r))
          /\ WF_vars(MkdirSettle(r))
          /\ WF_vars(WriteFileSettle(r))
    /\ WF_vars(DirCreateSettle)

\* ------------------------------------------------------ specification ----
Next ==
    \/ \E r \in Req, k \in Keys : RequestEvent(r, k) /\ UNCHANGED atRequest
    \/ \E r \in Req : RequestGetInfo(r)
    \/ \E r \in Req : RequestReadFile(r)
    \/ \E r \in Req : RequestFindClosest(r)
    \/ \E r \in Req : ResponseEvent(r)
    \/ \E r \in Req : ResponseGetInfo(r)
    \/ \E r \in Req : ResponseDirCreated(r)
    \/ \E r \in Req : ResponseSaved(r)
    \/ \E r \in Req : MkdirSettle(r)
    \/ \E r \in Req : WriteFileSettle(r)
    \/ DirCreateSettle
    \/ \E d \in SubDirs \ {""} : startTestCase(d)
    \/ endTestCase
    \/ attachSnapshotIgnoreRules
    \/ resetSnapshotIgnoreRules
    \/ BeforeExit
    \/ ExitListed
    \/ ExitSettle

Spec == Init /\ [][Next]_vars

TypeOK ==
    /\ SNAPSHOT \in Modes
    /\ pc \in [Req -> {"idle", "reqInfo", "reqRead", "reqFind", "responded",
                       "passthrough", "error", "respInfo", "respLogRequest",
                       "respLogResponse", "respDir", "respSave", "respDone",
                       "respError"}]
    /\ LOG_REQ \in {"", "summary", "detailed"}
    /\ faults \in 0..MaxFaults
    /\ exitPc \in {"idle", "list", "write", "unlink", "done"}
    /\ exits \in 0..MaxExits
    /\ existingSnapshotFilesList \subseteq Dirs
    /\ finderPc \in {"idle", "call", "returned", "threw", "reported"}


\* ================================================================ claims ==
RootA == AbsoluteFilePath(FileName("", "a"))

\* the request handler of r returned without throwing
RequestReturned(r) ==
    pc[r] \in {"responded", "passthrough", "respInfo", "respLogRequest",
               "respLogResponse", "respDir", "respSave", "respDone", "respError"}

\* the requests whose response handler called saveSnapshot for path p
Saved(p) == {r \in Req : awaiting[r] # 0 /\ info[r].absoluteFilePath = p}

\* C1: in read mode a request handler that returns has injected a response
\* built from the stored snapshot, and a handler whose snapshot file does not
\* exist (readFile gave ENOENT) throws 'Network request not mocked' and
\* injects nothing.
C1_ReadModeNeverLive ==
    SNAPSHOT = "read" =>
        \A r \in Req :
            /\ RequestReturned(r) => Truthy(injected[r])
            /\ (r \in missed /\ pc[r] # "reqFind") =>
                   /\ pc[r] = "error"
                   /\ err[r] = "Network request not mocked"
                   /\ injected[r] = Undefined

\* C2: in read and ignore modes no snapshot file is written, whatever the
\* events, and alreadyWrittenFiles stays empty.
C2_NoWriteInReadOrIgnore ==
    SNAPSHOT \in {"read", "ignore"} =>
        \A p \in Paths :
            /\ writeCalls[p] = 0
            /\ alreadyWrittenFiles[p] = 0
            /\ disk[p] = disk0[p]

C2_Witness ==
    /\ SNAPSHOT \in {"read", "ignore"}
    /\ \A r \in Req : pc[r] = "respDone"

\* C3: in update and ignore modes the request handler reads no file, leaves
\* snapshotCache and readFiles empty and injects no response: it returns at
\* once and the request passes through.
C3_NoReadInUpdateOrIgnore ==
    SNAPSHOT \in {"update", "ignore"} =>
        /\ fsReads = {}
        /\ readFiles = {}
        /\ \A p \in Paths : snapshotCache[p] = Undefined
        /\ \A r \in Req :
              /\ injected[r] = Undefined
              /\ cache[r] = NoInfo
              /\ pc[r] \notin {"reqInfo", "reqRead", "reqFind", "responded", "error"}

C3_Witness ==
    /\ SNAPSHOT = "update"
    /\ disk[RootA].kind = "json"
    /\ \E r \in Req : pc[r] = "passthrough" /\ r \notin ignoredRequests

AllSaved(p) == Saved(p) # {} /\ \A r \in Saved(p) : pc[r] = "respDone"

\* C5 as stated: in update mode, once the response events for one path are
\* handled, the file holds the pair of the latest of them.
C5_LatestPairWins ==
    SNAPSHOT = "update" =>
        \A p \in Paths :
            AllSaved(p) => disk[p].pair = ResponseOf(lastSaver[p])

\* C5 amended: in update mode, once the response events for one path are
\* handled, the file holds the pair of the first of them to reach
\* saveSnapshot; the later pairs are not written.
C5_FirstPairWins ==
    SNAPSHOT = "update" =>
        \A p \in Paths :
            AllSaved(p) =>
                /\ disk[p].kind = "json"
                /\ disk[p].pair = ResponseOf(firstSaver[p])
                /\ disk[p].key = body[firstSaver[p]]

C5_Witness ==
    /\ SNAPSHOT = "update"
    /\ \E p \in Paths :
          /\ AllSaved(p)
          /\ Cardinality(Saved(p)) >= 2
          /\ disk[p].pair # ResponseOf(lastSaver[p])

\* C6: for one path fs.writeFile is called at most once, every caller of
\* saveSnapshot for the path awaits the promise of the first call, and a
\* caller that got its result finds exactly one write performed.
C6_WriteDedup ==
    \A p \in Paths :
        /\ writeCalls[p] <= 1
        /\ \A r \in Saved(p) :
              /\ awaiting[r] = firstSaver[p]
              /\ alreadyWrittenFiles[p] = firstSaver[p]
              /\ pc[r] = "respDone" =>
                    /\ writeCalls[p] = 1
                    /\ savePc[firstSaver[p]] = "fulfilled"

C6_Witness ==
    /\ SNAPSHOT = "append"
    /\ \E p \in Paths :
          /\ Cardinality(Saved(p)) >= 2
          /\ \A r \in Saved(p) : pc[r] = "respDone"
          /\ writeCalls[p] = 1

\* C7: in append mode the step of the request handler in which readFile
\* fails with ENOENT returns without throwing, injects no response and
\* leaves snapshotCache and readFiles as they were.
C7_AppendMissFallsThrough ==
    [][SNAPSHOT = "append" =>
         \A r \in Req :
             (r \notin missed /\ r \in missed') =>
                 /\ pc'[r] = "passthrough"
                 /\ injected'[r] = Undefined
                 /\ err'[r] = ""
                 /\ snapshotCache' = snapshotCache
                 /\ readFiles' = readFiles]_vars

C7_Witness ==
    /\ SNAPSHOT = "append"
    /\ \E r \in missed : pc[r] = "passthrough" /\ injected[r] = Undefined

\* C8: in append mode no step writes, or calls fs.writeFile for, a file that
\* was read and parsed earlier in the run.
C8_AppendNeverRewritesRead ==
    [][SNAPSHOT = "append" =>
         \A p \in readOk :
             /\ writeCalls'[p] = writeCalls[p]
             /\ disk'[p] = disk[p]]_vars

C8_Witness ==
    /\ SNAPSHOT = "append"
    /\ \E r \in Req :
          /\ pc[r] = "respDone"
          /\ info[r].absoluteFilePath \in readOk
          /\ disk0[info[r].absoluteFilePath].kind = "json"

C10_IgnoredInReadIsFatal ==
    [][SNAPSHOT = "read" =>
         \A r \in Req :
             (pc[r] = "idle" /\ pc'[r] # "idle" /\ ShouldIgnore(snapshotIgnoreRules)) =>
                 /\ pc'[r] = "error"
                 /\ err'[r] = "Request ignored by snapshot ignore rules"
                 /\ injected'[r] = Undefined
                 /\ info'[r] = NoInfo
                 /\ cache'[r] = NoInfo
                 /\ r \notin fsReads'
                 /\ snapshotCache' = snapshotCache
                 /\ readFiles' = readFiles]_vars

C10_Witness ==
    /\ SNAPSHOT = "read"
    /\ disk[RootA].kind = "json"
    /\ \E r \in ignoredRequests : pc[r] = "error" /\ info[r] = NoInfo

\* C11: in update and append modes a request the ignore predicate accepted
\* passes through live: its handler reads no snapshot and injects no
\* response, and its response handler never calls saveSnapshot, also when
\* no snapshot file exists for it.
C11_IgnoredPassesThrough ==
    SNAPSHOT \in {"update", "append"} =>
        \A r \in ignoredRequests :
            /\ pc[r] \in {"passthrough", "respInfo", "respDone"}
            /\ r \notin fsReads
            /\ injected[r] = Undefined
            /\ awaiting[r] = 0
            /\ savePc[r] = "none"
            /\ \A p \in Paths : alreadyWrittenFiles[p] # r

\* an ignored request whose response handler has finished in update mode,
\* with no snapshot file for its fingerprint
C11_Witness ==
    /\ SNAPSHOT = "update"
    /\ \E r \in ignoredRequests :
        /\ pc[r] = "respDone"
        /\ disk[info[r].absoluteFilePath] = Absent

\* C12: with a mode value that is none of read, update, append, ignore the
\* engine behaves as in read mode: a request whose handler returns was
\* answered from a snapshot it read, and a 'beforeExit' event starts the
\* unused-snapshot report.
C12_UnknownModeIsRead ==
    SNAPSHOT \notin {"read", "update", "append", "ignore"} =>
        /\ \A r \in Req :
              RequestReturned(r) => r \in fsReads \/ Truthy(injected[r])
        /\ exits > 0 => beforeExitEventSeen

\* C13: once a read of a path has succeeded, a later readSnapshot of that path
\* does not read the file again and returns the cached record, and the
\* cache entry of the path is never removed or replaced.
C13_ReadCache ==
    [][\A p \in readOk :
          /\ snapshotCache'[p] = snapshotCache[p]
          /\ \A r \in Req :
                (pc[r] = "reqInfo" /\ pc'[r] # "reqInfo"
                    /\ info'[r].absoluteFilePath = p) =>
                    /\ pc'[r] # "reqRead"
                    /\ r \notin fsReads'
                    /\ injected'[r] = snapshotCache[p]
    ]_vars

\* C14: in read and append modes a read of the snapshot file that fails with
\* an error other than ENOENT, or returns text that does not parse, makes
\* the handler throw: nothing is injected, and snapshotCache and readFiles
\* are unchanged.
C14_ReadFailureIsFatal ==
    [][(SNAPSHOT \in {"read", "append"}) =>
        \A r \in Req :
            (pc[r] = "reqRead" /\ pc'[r] # "reqRead"
                /\ (disk[info[r].absoluteFilePath].kind = "garbage"
                        \/ faults' # faults)) =>
                /\ pc'[r] = "error"
                /\ err'[r] \in {"EIO", "SyntaxError"}
                /\ injected'[r] = Undefined
                /\ snapshotCache' = snapshotCache
                /\ readFiles' = readFiles]_vars

\* in append mode a handler threw on a file that does not parse
C14_Witness ==
    /\ SNAPSHOT = "append"
    /\ \E r \in fsReads :
        /\ pc[r] = "error"
        /\ err[r] = "SyntaxError"
        /\ disk[info[r].absoluteFilePath] = Garbage

\* the files below the snapshot directory that are not in readFiles
Unconsulted ==
    {f \in FileNames : disk[AbsoluteFilePath(f)] # Absent /\ f \notin readFiles}

\* C15: in read mode, once the 'beforeExit' handler has finished without an
\* I/O failure, the report lists exactly the files below the snapshot
\* directory that are not in readFiles (the report itself excluded), and
\* there is no report file when there is no such file.
C15_UnusedReport ==
    (SNAPSHOT = "read" /\ exitPc = "done" /\ ~exitFailed) =>
        report = IF Unconsulted # {}
                 THEN [exists |-> TRUE, files |-> Unconsulted]
                 ELSE NoReport

\* a report that lists some files while another file was consulted
C15_Witness ==
    /\ SNAPSHOT = "read"
    /\ exitPc = "done"
    /\ ~exitFailed
    /\ report.files # {}
    /\ \E f \in readFiles : f \notin report.files

\* C16: however often 'beforeExit' fires, also while the handler is suspended,
\* the report is written or deleted at most once, and exactly once when
\* the handler has finished.
C16_ReportOnce ==
    /\ reportOps <= 1
    /\ exitPc \in {"write", "unlink", "done"} => reportOps = 1
    /\ exitPc \in {"idle", "list"} => reportOps = 0

\* the event fired a second time while the handler awaited fs.writeFile
C16_Witness ==
    /\ exits = 2
    /\ exitPc = "write"
    /\ reportOps = 1

\* C17: in update, append and ignore modes the 'beforeExit' handler does
\* nothing: the report is neither written nor deleted and no directory is
\* listed.
C17_NoReportOutsideRead ==
    SNAPSHOT \in {"update", "append", "ignore"} =>
        /\ exitPc = "idle"
        /\ ~beforeExitEventSeen
        /\ reportOps = 0
        /\ existingSnapshotFilesList = {}
        /\ report = IF \E p \in Paths : disk0[p] # Absent
                    THEN StaleReport ELSE NoReport

\* 'beforeExit' fired in update mode after a snapshot was written, and the
\* report of the previous run is still there
C17_Witness ==
    /\ SNAPSHOT = "update"
    /\ exits > 0
    /\ report.exists
    /\ disk # disk0

\* C18: a file name enters readFiles only in the step in which fs.readFile of
\* that file returned and its text parsed; a miss, a failed read, a write
\* and an ignored request add nothing, and no name ever leaves the set.
C18_ConsultedOnlyAfterRead ==
    [][/\ readFiles \subseteq readFiles'
       /\ \A f \in readFiles' \ readFiles :
            \E r \in Req :
                /\ pc[r] = "reqRead"
                /\ pc'[r] \in {"responded", "passthrough"}
                /\ info[r].fileName = f
                /\ disk[AbsoluteFilePath(f)].kind \in {"json", "null"}
                /\ r \notin ignoredRequests
                /\ faults' = faults
                /\ disk' = disk
    ]_vars

\* a name is in readFiles after a miss and a write happened as well
C18_Witness ==
    /\ readFiles # {}
    /\ missed # {}
    /\ disk # disk0

\* the candidates of the call, and the diffRatio of a candidate
Candidates ==
    {n \in Names : files[n] # FAbsent /\ StartsWith(n, wanted.filePrefix)}
RatioOf(n) == DiffRatio(diffChars(files[n].key, wanted.fileSuffixKey))

\* C19: when the finder returns, it returns no match if no candidate has a
\* diffRatio below 0.5 (or there is no candidate), and otherwise a candidate
\* whose diffRatio is below 0.5 and is the least among the candidates,
\* together with the key stored in it.
C19_ClosestBelowHalf ==
    finderPc \in {"returned", "reported"} =>
        IF \A n \in Candidates : ~Less(RatioOf(n), Half)
        THEN closestMatch = NoMatch
        ELSE /\ closestMatch.file \in Candidates
             /\ closestMatch.fileSuffixKey = files[closestMatch.file].key
             /\ Less(RatioOf(closestMatch.file), Half)
             /\ \A n \in Candidates :
                    ~Less(RatioOf(n), RatioOf(closestMatch.file))

\* two candidates below 0.5: the one listed second is closer and is returned
C19_Witness ==
    /\ finderPc = "returned"
    /\ wanted.filePrefix = <<"p">>
    /\ closestMatch.file = <<"p", "x", "2">>
    /\ files[<<"p", "1">>].kind = "json"
    /\ Less(RatioOf(<<"p", "1">>), Half)
    /\ Less(RatioOf(<<"p", "x", "2">>), RatioOf(<<"p", "1">>))

\* the missed snapshot is on disk under another name: some listed file
\* stores the missed fileSuffixKey
Renamed(n) == files[n] = FSnapshot(wanted.fileSuffixKey)

C21_FinderFailureIsNotFatal ==
    (finderPc # "call" /\ CandidateThrows(wanted.filePrefix)) =>
        /\ finderPc \in {"returned", "reported"}
        /\ closestMatch = NoMatch

\* content-encoding of the record being replayed
StoredEncoding == Get(record.response.headers, "content-encoding")
Replayed == sendPc \in {"sent", "threw"}

\* C22: when the stored headers declare content-encoding compress or zstd,
\* sendResponse throws the 'encoding not supported' error and gives no
\* response to respondWith; when they declare br, gzip or deflate, the body
\* is compressed with that algorithm, and an injected response carries it.
C22_UnsupportedEncodingThrows ==
    Replayed =>
        /\ StoredEncoding \in {"compress", "zstd"} =>
              /\ sendPc = "threw"
              /\ sendErr = StoredEncoding \o " encoding not supported"
              /\ newResponse = NoResponse
        /\ StoredEncoding \in {"br", "gzip", "deflate"} =>
              /\ bufferBody = Buffer(StoredEncoding, EncodedBody(record))
              /\ sendPc = "sent" => newResponse.body = bufferBody

C22_Witness ==
    /\ sendPc = "threw"
    /\ StoredEncoding = "zstd"
    /\ sendErr = "zstd encoding not supported"
    /\ record.response.status = 200

\* C23: for a record with responseType json and content-encoding gzip the
\* response given to respondWith has the gzip of the compact JSON text as
\* its body, and a content-length header of it equals the byte length of
\* that body.
C23_JsonGzipContentLength ==
    (Replayed /\ record.responseType = "json" /\ StoredEncoding = "gzip") =>
        /\ sendPc = "sent"
        /\ newResponse.body = Buffer("gzip", JsonStringify(record.response.body))
        /\ (Find(record.response.headers, "content-length") # <<>>) =>
              Get(newResponse.headers, "content-length") = ByteLength(newResponse.body)

\* the live JSON text was indented: the stored content-length is replaced
C23_Witness ==
    /\ sendPc = "sent"
    /\ record.responseType = "json"
    /\ StoredEncoding = "gzip"
    /\ live.text.form = "pretty"
    /\ Find(record.response.headers, "content-length") # <<>>
    /\ Get(newResponse.headers, "content-length")
          # Get(record.response.headers, "content-length")

\* C24: a live response that is written and then replayed, its encoding
\* being one sendResponse supports, is reproduced: same status, status
\* text and headers, and a body that decodes to the live text, or for a JSON
\* record to a text that parses to the value of the live one.
C24_RoundTrip ==
    (Replayed /\ StoredEncoding \notin {"compress", "zstd"}) =>
        /\ sendPc = "sent"
        /\ newResponse.status = live.status
        /\ newResponse.statusText = live.statusText
        /\ Entries(newResponse.headers) = Entries(live.headers)
        /\ IF record.responseType = "json"
           THEN /\ ~JsonThrows(Decoded(newResponse))
                /\ JsonParse(Decoded(newResponse)) = JsonParse(live.text)
           ELSE Decoded(newResponse) = live.text

\* requests i and j have the same method, URL and body
SameRequestData(i, j) ==
    /\ requests[i].method = requests[j].method
    /\ requests[i].hostname = requests[j].hostname
    /\ requests[i].pathname = requests[j].pathname
    /\ requests[i].body = requests[j].body
\* the operation named by the x-amz-target header, as it enters a filePrefix
TargetSlug(i) == Slugify(LastSegment(requests[i].target))

C26_GeneratorNeverThrows ==
    \A i \in Callers :
        (genPc[i] # "call" /\ JsonThrows(requests[i].body)) =>
            /\ genPc[i] = "returned"
            /\ generated[i].fileSuffixKey[3] = requests[i].body

\* the sub-directory before call i of the log
SubDirectoryBefore(i) == IF i = 1 THEN "" ELSE testCalls[i - 1].after

\* C27: startTestCase throws while a test case is running and leaves the
\* sub-directory as it was; endTestCase sets it to the root and does not
\* throw; startTestCase called when none is running, as after endTestCase,
\* does not throw and sets the sub-directory to its argument.
C27_TestCaseCalls ==
    /\ snapshotSubDirectory = SubDirectoryBefore(Len(testCalls) + 1)
    /\ \A i \in 1..Len(testCalls) :
          LET call == testCalls[i]
          IN /\ call.before = SubDirectoryBefore(i)
             /\ (call.op = "start" /\ call.before # "") =>
                   call.threw /\ call.after = call.before
             /\ (call.op = "start" /\ call.before = "") =>
                   ~call.threw /\ call.after = call.directoryName
             /\ call.op = "end" => ~call.threw /\ call.after = ""

\* a second start is refused, the test case is ended, the start then succeeds
C27_Witness ==
    /\ Len(testCalls) = 4
    /\ testCalls[1] = [op |-> "start", directoryName |-> "t", threw |-> FALSE,
                       before |-> "", after |-> "t"]
    /\ testCalls[2] = [op |-> "start", directoryName |-> "u", threw |-> TRUE,
                       before |-> "t", after |-> "t"]
    /\ testCalls[3].op = "end"
    /\ testCalls[4] = [op |-> "start", directoryName |-> "u", threw |-> FALSE,
                       before |-> "", after |-> "u"]
    /\ snapshotSubDirectory = "u"

\* fs.mkdir calls made for directory d
MkdirInvocations(d) ==
    mkdirCalls.saveFreshSnapshot[d]
        + (IF d = RootDir THEN mkdirCalls.dirCreatePromise ELSE 0)
\* files of directory d for which fs.writeFile was called
WrittenInto(d) == {p \in Paths : Dirname(p) = d /\ writeCalls[p] > 0}

C28_TestCaseIsolation ==
    /\ \A s1, s2 \in SubDirs, k \in Keys :
          s1 # s2 => AbsoluteFilePath(FileName(s1, k)) # AbsoluteFilePath(FileName(s2, k))
    /\ \A f \in readFiles : AbsoluteFilePath(f) \in readOk
    /\ \A p \in Paths : snapshotCache[p] # Undefined => p \in readOk
    /\ \A p \in Paths :
          alreadyWrittenFiles[p] # 0 => info[alreadyWrittenFiles[p]].absoluteFilePath = p
    /\ \A r \in Req :
          /\ injected[r] # Undefined =>
                /\ info[r].absoluteFilePath \in readOk
                /\ injected[r] = snapshotCache[info[r].absoluteFilePath]
          /\ awaiting[r] # 0 =>
                info[awaiting[r]].absoluteFilePath = info[r].absoluteFilePath
          /\ (SNAPSHOT = "append" /\ pc[r] = "respDone" /\ awaiting[r] = 0
              /\ r \notin ignoredRequests) =>
                info[r].fileName \in readFiles

\* append mode: the body read from the root's file under no test case misses
\* under test case "t" and is written there
C28_Witness ==
    /\ SNAPSHOT = "append"
    /\ \E r1, r2 \in Req :
          /\ body[r1] = body[r2]
          /\ info[r1].fileName[1] = ""
          /\ info[r2].fileName[1] = "t"
          /\ injected[r1] # Undefined
          /\ pc[r1] = "respDone"
          /\ awaiting[r1] = 0
          /\ r2 \in missed
          /\ pc[r2] = "respDone"
          /\ writeCalls[info[r2].absoluteFilePath] = 1
          /\ writeCalls[info[r1].absoluteFilePath] = 0


C33_WriteAfterDirectory ==
    \A r \in Req :
        savePc[r] = "writeFile" =>
            /\ Dirname(info[r].absoluteFilePath) \in dirsOnDisk
            /\ \A q \in Req \ {r} :
                   ~(/\ savePc[q] = "mkdir"
                     /\ Dirname(info[q].absoluteFilePath) =
                            Dirname(info[r].absoluteFilePath))


\* ---------------------------------------------------------------- C35 ----
\* C35: a failed write is memoized like a successful one. Once the promise
\* of the first saveSnapshot call for a path is rejected (fs.mkdir or
\* fs.writeFile failed), it stays the entry of alreadyWrittenFiles, every
\* saveSnapshot call for the path has returned that promise, every handler
\* that awaited it has thrown, and fs.writeFile was called at most once.
C35_FailedWriteMemoized ==
    \A p \in Paths :
        (firstSaver[p] # 0 /\ savePc[firstSaver[p]] = "rejected") =>
            /\ alreadyWrittenFiles[p] = firstSaver[p]
            /\ writeCalls[p] <= 1
            /\ \A r \in Req :
                   (awaiting[r] # 0 /\ info[r].absoluteFilePath = p) =>
                       /\ awaiting[r] = firstSaver[p]
                       /\ pc[r] \in {"respSave", "respError"}
                       /\ pc[r] = "respError" => err[r] = "EIO"

\* a request called saveSnapshot for a path after the first write for it
\* had failed, and both handlers threw
C35_Witness ==
    \E p \in Paths, r \in Req :
        /\ firstSaver[p] \notin {0, r}
        /\ savePc[firstSaver[p]] = "rejected"
        /\ lastSaver[p] = r
        /\ awaiting[r] = firstSaver[p]
        /\ pc[r] = "respError"
        /\ pc[firstSaver[p]] = "respError"
        /\ writeCalls[p] <= 1


\* ---------------------------------------------------------------- C32 ----
\* C32: after any sequence of start and stop calls at most one interceptor
\* is applied, and once stop has run (the module holds no interceptor) none
\* is applied.
C32_SingletonInterceptor ==
    /\ Cardinality(applied) <= 1
    /\ interceptor = 0 => applied = {}


RequestRunning(r) == pc[r] \in {"reqInfo", "reqRead", "reqFind"}
ResponseRunning(r) ==
    pc[r] \in {"respInfo", "respLogRequest", "respLogResponse", "respDir", "respSave"}

C36_StoredUnderRequestTestCase ==
    \A r \in Req :
        (SNAPSHOT = "update" /\ awaiting[r] # 0) =>
            info[r].fileName[1] = atRequest[r].snapshotSubDirectory


\* ---------------------------------------------------------------- C37 ----
\* the response handler of r has passed cache.delete(request)
ResponseLookedUp(r) ==
    pc[r] \in {"respLogRequest", "respLogResponse", "respDir", "respSave",
               "respDone", "respError"}

\* C37: what the request event decided binds the response event, whatever
\* the test code changes in between. In read and append mode the request
\* handler of a request that is not ignored computes the file identity, the
\* response handler never computes one, and the identity of the request
\* stays what it was. In every mode a request the predicate ignored at its
\* request event is never saved, and in update mode one it did not ignore
\* is. The entry of the request in the cache is removed once the response
\* handler has looked it up.
C37_RequestTimeBinding ==
    /\ [](\A r \in Req :
            /\ (SNAPSHOT \in {"read", "append"} /\ pc[r] # "idle"
                    /\ ~atRequest[r].shouldIgnoreSnapshot) =>
                   /\ pc[r] # "respInfo"
                   /\ RequestReturned(r) => info[r] # NoInfo
            /\ atRequest[r].shouldIgnoreSnapshot =>
                   /\ awaiting[r] = 0
                   /\ pc[r] \notin {"respDir", "respSave"}
            /\ (SNAPSHOT = "update" /\ pc[r] = "respDone"
                    /\ ~atRequest[r].shouldIgnoreSnapshot) => awaiting[r] # 0
            /\ ResponseLookedUp(r) => cache[r] = NoInfo)
    /\ [][\A r \in Req :
            (SNAPSHOT \in {"read", "append"} /\ info[r] # NoInfo) =>
                info'[r] = info[r]]_vars

\* append mode: a request issued in test case "t" with the attached
\* generator and the default rules was saved under t with the generator's
\* key, the entry is gone, and by now the test case has ended, the generator
\* is reset and rules that ignore every request are attached
C37_Witness ==
    \E r \in Req :
        /\ SNAPSHOT = "append"
        /\ atRequest[r] = [snapshotSubDirectory |-> "t", shouldIgnoreSnapshot |-> FALSE]
        /\ info[r].fileName = FileName("t", "b")
        /\ pc[r] = "respSave"
        /\ awaiting[r] = r
        /\ cache[r] = NoInfo
        /\ snapshotSubDirectory = ""
        /\ snapshotFileNameGenerator = "default"
        /\ snapshotIgnoreRules = "custom"


\* ---------------------------------------------------------------- C31 ----
\* C31: every step that changes a file of the snapshot directory leaves in
\* it a snapshot whose stored fileSuffixKey has the digest that ends the
\* file's name, in read, append and update mode, whatever generator is
\* attached or reset and whatever test case is started or ended between the
\* steps.
C31_StoredKeyNamesFile ==
    [][\A p \in Paths :
          disk'[p] # disk[p] =>
              /\ disk'[p].kind = "json"
              /\ Digest(disk'[p].key) = p[3]]_vars

\* update mode: the request with body "a" was issued in test case "t" under
\* the attached generator, whose key is "b"; its snapshot is on disk under
\* t with the digest of "b", and by now the generator is reset and the test
\* case has ended
C31_Witness ==
    \E r \in Req :
        /\ SNAPSHOT = "update"
        /\ body[r] = "a"
        /\ savePc[r] = "fulfilled"
        /\ info[r].fileName = FileName("t", "b")
        /\ disk[info[r].absoluteFilePath] = Stringify(Snapshot("b", ResponseOf(r)))
        /\ snapshotFileNameGenerator = "default"
        /\ snapshotSubDirectory = ""


\* ---------------------------------------------------------------- C34 ----
\* C34: in append mode the fs.readFile of a request that was issued while
\* the write an earlier response handler started for the same path is in
\* flight, and that settles before that write does, finds no file or the
\* complete record of that write.
C34_ReadSeesWholeFile ==
    [][\A r \in Req : \A w \in Req \ {r} :
          (/\ SNAPSHOT = "append"
           /\ pc[r] = "reqRead"
           /\ pc'[r] # "reqRead"
           /\ savePc[w] \in {"mkdir", "writeFile"}
           /\ info[w].absoluteFilePath = info[r].absoluteFilePath) =>
              \/ disk[info[r].absoluteFilePath] = Absent
              \/ disk[info[r].absoluteFilePath] = Stringify(FreshSnapshot(w))]_vars

====
